---- MODULE Spec2Model ----
(***************************************************************************)
(* A model of the Miden VM core: the Merkle-tree macro expansion of the    *)
(* assembler (assembly/src/parsers/crypto_ops.rs), the VM operations it    *)
(* emits (core/src/operations/mod.rs, processor/src/operations), and the   *)
(* hash-committed code blocks (core/src/program/blocks).                   *)
(*                                                                         *)
(* The module holds several specifications over one set of variables:      *)
(*   Spec      a process executing a span of operations                    *)
(*   SpecAsm   the assembler appending macro expansions to a span          *)
(*   SpecBlk   construction and marking of Join / Split blocks             *)
(*   SpecCompile  import resolution of Assembler::compile                  *)
(* Each specification leaves the variables of the others at their idle     *)
(* values.                                                                 *)
(***************************************************************************)
EXTENDS Integers, Sequences, FiniteSets

VARIABLES
    stack,        \* Process.stack: operand stack, top first, never shallower than MIN_STACK_DEPTH
    tags,         \* ghost, parallel to stack: "d" / "i" mark the depth and index scalars
    advice_tape,  \* advice provider: the tape read by Read
    advice_sets,  \* advice provider: the tracked Merkle trees, one entry per root
    ops,          \* the span of operations being executed
    pc,           \* index in ops of the next operation
    status,       \* "running", "halted" or "failed"
    err,          \* the error of a failed run
    inp,          \* ghost: the inputs the run was started with
    prim,         \* ghost: what the last Merkle primitive computed
    span_ops,     \* assembler: the span under construction
    parse_result, \* assembler: result of the last parser call
    ntok,         \* assembler: number of tokens parsed so far
    tok,          \* ghost: the parser called last and the token given to it
    block,        \* code block under construction
    made,         \* ghost: the block as returned by its constructor
    appended,     \* ghost: the markers appended since construction
    cont,         \* the code blocks still to be executed, next one first
    ran,          \* ghost: the hashes of the spans entered, in order
    splits,       \* ghost: what each executed Split block popped and chose
    hsh,          \* hasher chiplet: a function applied to its arguments
    air,          \* decoder constraints: one evaluation of enforce_hacc
    enc,          \* an operation and what op_code and is_decorator return for it
    assembler     \* Assembler: the library, parsed_modules and the compile call in progress

vmVars  == <<stack, tags, advice_tape, advice_sets, ops, pc, status, err, inp, prim,
             cont, ran, splits>>
asmVars == <<span_ops, parse_result, ntok, tok>>
blkVars == <<block, made, appended>>
pureVars == <<hsh, air, enc, assembler>>
vars    == <<stack, tags, advice_tape, advice_sets, ops, pc, status, err, inp, prim,
             span_ops, parse_result, ntok, tok, block, made, appended,
             cont, ran, splits, hsh, air, enc, assembler>>

----------------------------------------------------------------------------
(* Bounds of the model.                                                    *)

\* deepest Merkle tree the runs use
MaxDepth == 2
\* trees are drawn from seeds 0..MaxSeed
MaxSeed == 1
\* most non-zero elements below the operands on the initial stack
MaxRest == 9
\* most assembly instructions parsed into one span
MaxInstr == 4
\* most procedure markers appended to one block
MaxMarkers == 2
\* most blocks of values absorbed into one hasher state
MaxAbsorb == 2
MaxCode == 2
MaxMem == 2

(* Program constants.                                                      *)
MIN_STACK_DEPTH == 16

----------------------------------------------------------------------------
(* Words and hashing.                                                      *)

RECURSIVE Pow2(_)
Pow2(n) == IF n = 0 THEN 1 ELSE 2 * Pow2(n - 1)

\* An injective pairing of two field elements.
CantorPair(x, y) == ((x + y) * (x + y + 1)) \div 2 + y

\* hasher::merge: the 2-to-1 hash of two digests.  The Rescue Prime
\* permutation behind it is an external crate; it is modelled as a
\* deterministic, collision-free and non-commutative function of the pair.
merge(values) ==
    <<CantorPair(values[1][1], values[2][1]),
      CantorPair(values[1][2], values[2][2]),
      CantorPair(values[1][3], values[2][3]),
      CantorPair(values[1][4], values[2][4])>>

\* A word [w0, w1, w2, w3] lies on the stack with w3 on top (op_eqw: b3 = get(0)).
WordToStack(w) == <<w[4], w[3], w[2], w[1]>>

\* The word held at stack positions p .. p+3 (position 0 is the top).
StackWord(s, p) == <<s[p + 4], s[p + 3], s[p + 2], s[p + 1]>>

----------------------------------------------------------------------------
(* Merkle trees held by the advice provider.  A tree is an entry           *)
(* [root, depth, leaves]; leaves[j + 1] is the node at index j.            *)

\* One level up: the merges of adjacent pairs of nodes.
LevelUp(nodes) ==
    [j \in 1..(Len(nodes) \div 2) |-> merge(<<nodes[2 * j - 1], nodes[2 * j]>>)]

\* The root of the tree over the given leaves.
RECURSIVE MerkleRoot(_)
MerkleRoot(nodes) ==
    IF Len(nodes) = 1 THEN nodes[1] ELSE MerkleRoot(LevelUp(nodes))

\* get_merkle_path: the siblings of the node at index, from the leaves up.
RECURSIVE get_merkle_path(_, _)
get_merkle_path(nodes, index) ==
    IF Len(nodes) = 1 THEN <<>>
    ELSE <<nodes[(IF index % 2 = 0 THEN index + 1 ELSE index - 1) + 1]>>
         \o get_merkle_path(LevelUp(nodes), index \div 2)

\* build_merkle_root: merge the running value with each sibling, left or
\* right according to the bits of index.
RECURSIVE build_merkle_root(_, _, _)
build_merkle_root(node, path, index) ==
    IF path = <<>> THEN node
    ELSE build_merkle_root(
             IF index % 2 = 0 THEN merge(<<node, Head(path)>>)
                              ELSE merge(<<Head(path), node>>),
             Tail(path), index \div 2)

\* The entries of the advice provider tracked under the given root.
FindSet(sets, root) == {e \in sets : e.root = root}

\* update_merkle_leaf: the tree set after the node at index of entry e is
\* replaced by value.  The updated tree is tracked under its own root; the
\* entry e stays only when the update is made in a copy.
update_merkle_leaf(sets, e, index, value, copy) ==
    LET leaves == [e.leaves EXCEPT ![index + 1] = value]
        new    == [root |-> MerkleRoot(leaves), depth |-> e.depth, leaves |-> leaves]
        kept   == IF copy THEN sets ELSE sets \ {e}
    IN  {x \in kept : x.root # new.root} \cup {new}

----------------------------------------------------------------------------
(* Operations (core/src/operations/mod.rs).  An operation is a record      *)
(* [k, n]: its kind and its numeric parameter (0 when it has none).        *)

Op(k, n) == [k |-> k, n |-> n]

\* Operation::Assert
AssertOp == Op("Assert", 0)
Eqw      == Op("Eqw", 0)
Pad      == Op("Pad", 0)
Drop     == Op("Drop", 0)
Dup7     == Op("Dup", 7)
Dup9     == Op("Dup", 9)
SwapW    == Op("SwapW", 1)
SwapW2   == Op("SwapW", 2)
MovUp9   == Op("MovUp", 9)
MovUp13  == Op("MovUp", 13)
MovDn5   == Op("MovDn", 5)
MovDn9   == Op("MovDn", 9)
Push(v)  == Op("Push", v)
Read     == Op("Read", 0)
ReadW    == Op("ReadW", 0)
RpPerm   == Op("RpPerm", 0)
Inv      == Op("Inv", 0)
Not      == Op("Not", 0)
MpVerify == Op("MpVerify", 0)
MrUpdate(copy) == Op("MrUpdate", IF copy THEN 1 ELSE 0)
\* Advice(AdviceInjector::MerkleNode)
AdviceMerkleNode == Op("Advice", 0)

Repeat(op, n) == [j \in 1..n |-> op]

----------------------------------------------------------------------------
(* Effects of the stack manipulation operations on a stack s whose absent  *)
(* elements read as z.                                                     *)

\* The stack one shorter; at minimum depth a z is shifted in at the bottom.
ShiftLeftNoFloor(s, z) == Tail(s)

ShiftLeft(s, z) ==
    IF Len(s) > MIN_STACK_DEPTH THEN Tail(s) ELSE Tail(s) \o <<z>>

\* Dup<n>: pushes a copy of stack element n onto the stack.
op_dup(s, n) == <<s[n + 1]>> \o s

\* SwapW / SwapW2: swaps elements 0..3 with elements 4w .. 4w+3.
op_swapw(s, w) ==
    [j \in 1..Len(s) |->
        IF j <= 4 THEN s[j + 4 * w]
        ELSE IF j > 4 * w /\ j <= 4 * w + 4 THEN s[j - 4 * w]
        ELSE s[j]]

\* MovUp<n>: moves stack element n to the top of the stack.
op_movup(s, n) ==
    <<s[n + 1]>> \o SubSeq(s, 1, n) \o SubSeq(s, n + 2, Len(s))

\* MovDn<n>: moves the top stack element to position n on the stack.
op_movdn(s, n) ==
    SubSeq(s, 2, n + 1) \o <<s[1]>> \o SubSeq(s, n + 2, Len(s))

op_eqw_crossed(s) ==
    IF s[8] = s[1] /\ s[7] = s[2] /\ s[6] = s[3] /\ s[5] = s[4] THEN 1 ELSE 0

\* op_eqw: the flag pushed by Eqw.
op_eqw(s) ==
    LET b3 == s[1]  b2 == s[2]  b1 == s[3]  b0 == s[4]
        a3 == s[5]  a2 == s[6]  a1 == s[7]  a0 == s[8]
    IN  IF a0 = b0 /\ a1 = b1 /\ a2 = b2 /\ a3 = b3 THEN 1 ELSE 0

\* The stack with the word at positions p .. p+3 replaced by w.
SetWord(s, p, w) ==
    [j \in 1..Len(s) |-> IF j > p /\ j <= p + 4 THEN WordToStack(w)[j - p] ELSE s[j]]

----------------------------------------------------------------------------
(* The Merkle macro expansion (assembly/src/parsers/crypto_ops.rs).  Each  *)
(* function appends to the span it is given.                               *)

\* A faulty variant: the comparison flag is dropped without being asserted.
validate_and_drop_root_unasserted(ops0) ==
    ops0 \o <<Eqw, Drop>> \o Repeat(Drop, 4)

validate_and_drop_root(ops0) ==
    ops0 \o <<Eqw, AssertOp>> \o Repeat(Drop, 4)

\* Faulty variants of get: without the final word swap, the root ends on
\* top of the node; reading the node with depth and index left where they
\* are; reading the node with one word read.
mtree_get_root_on_top(ops0) ==
    validate_and_drop_root(
        ops0 \o <<AdviceMerkleNode>>
             \o <<MovDn5, MovDn5>>
             \o Repeat(Read, 4)
             \o <<SwapW>>
             \o Repeat(Dup7, 4)
             \o <<MovUp13, MovUp13>>
             \o <<MpVerify>>
             \o <<Drop, Drop>>)
mtree_get_reads_first(ops0) ==
    validate_and_drop_root(
        ops0 \o <<AdviceMerkleNode>>
             \o Repeat(Read, 4)
             \o <<SwapW>>
             \o Repeat(Dup7, 4)
             \o <<MovUp13, MovUp13>>
             \o <<MpVerify>>
             \o <<Drop, Drop>>)
    \o <<SwapW>>
mtree_get_readw(ops0) ==
    validate_and_drop_root(
        ops0 \o <<AdviceMerkleNode>>
             \o <<MovDn5, MovDn5>>
             \o <<ReadW>>
             \o <<SwapW>>
             \o Repeat(Dup7, 4)
             \o <<MovUp13, MovUp13>>
             \o <<MpVerify>>
             \o <<Drop, Drop>>)
    \o <<SwapW>>

mtree_get(ops0) ==
    validate_and_drop_root(
        ops0 \o <<AdviceMerkleNode>>
             \o <<MovDn5, MovDn5>>
             \o Repeat(Read, 4)
             \o <<SwapW>>
             \o Repeat(Dup7, 4)
             \o <<MovUp13, MovUp13>>
             \o <<MpVerify>>
             \o <<Drop, Drop>>)
    \o <<SwapW>>

prep_stack_for_mrupdate(ops0) ==
    ops0 \o <<MovDn9, MovDn9>>
         \o <<SwapW>>
         \o <<MovUp9, MovUp9>>
         \o <<AdviceMerkleNode>>
         \o Repeat(Dup9, 4)
         \o Repeat(Read, 4)
         \o <<MovUp9, MovUp9>>

validate_root_after_mrupdate(ops0) ==
    validate_and_drop_root(ops0 \o <<Drop, Drop>> \o <<SwapW>> \o <<SwapW2>>)

\* Faulty variants of set and cwm: set leaving the old root on the stack;
\* set without the final word swap; set updating a copy of the tree; cwm
\* swapping the new node with the new root rather than with the old root.
mtree_set_keeps_old_root(ops0) ==
    validate_root_after_mrupdate(prep_stack_for_mrupdate(ops0) \o <<MrUpdate(FALSE)>>)
    \o <<SwapW>>
mtree_set_root_on_top(ops0) ==
    validate_root_after_mrupdate(prep_stack_for_mrupdate(ops0) \o <<MrUpdate(FALSE)>>)
    \o Repeat(Drop, 4)
mtree_set_copying(ops0) ==
    validate_root_after_mrupdate(prep_stack_for_mrupdate(ops0) \o <<MrUpdate(TRUE)>>)
    \o Repeat(Drop, 4)
    \o <<SwapW>>
mtree_cwm_old_root_second(ops0) ==
    validate_root_after_mrupdate(prep_stack_for_mrupdate(ops0) \o <<MrUpdate(TRUE)>>)
    \o <<SwapW>>

mtree_set(ops0) ==
    validate_root_after_mrupdate(prep_stack_for_mrupdate(ops0) \o <<MrUpdate(FALSE)>>)
    \o Repeat(Drop, 4)
    \o <<SwapW>>

mtree_cwm(ops0) ==
    validate_root_after_mrupdate(prep_stack_for_mrupdate(ops0) \o <<MrUpdate(TRUE)>>)
    \o <<SwapW2>>

\* validate_op_len(op, min_parts, min_params, max_params): "Ok" or the error.
\* AssemblyError::unexpected_token(op, expected): the error names the
\* instruction that was expected.
unexpected_token(expected) ==
    CASE expected = "rphash" -> "unexpected_token: expected rphash"
      [] expected = "rpperm" -> "unexpected_token: expected rpperm"
      [] expected = "mtree.{get|set|cwm}" -> "unexpected_token: expected mtree.{get|set|cwm}"

validate_op_len(op, min_parts, min_params, max_params) ==
    IF Len(op) < min_parts THEN "invalid_op"
    ELSE IF Len(op) < min_parts + min_params THEN "missing_param"
    ELSE IF Len(op) > min_parts + max_params THEN "extra_param"
    ELSE "Ok"

\* parse_mtree(span_ops, op): the result and the span afterwards.
parse_mtree(ops0, op) ==
    LET len == validate_op_len(op, 2, 0, 0) IN
    IF len # "Ok" THEN [res |-> len, span |-> ops0]
    ELSE IF op[1] # "mtree"
         THEN [res |-> unexpected_token("mtree.{get|set|cwm}"), span |-> ops0]
    ELSE IF op[2] = "get" THEN [res |-> "Ok", span |-> mtree_get(ops0)]
    ELSE IF op[2] = "set" THEN [res |-> "Ok", span |-> mtree_set(ops0)]
    ELSE IF op[2] = "cwm" THEN [res |-> "Ok", span |-> mtree_cwm(ops0)]
    ELSE [res |-> "invalid_op", span |-> ops0]

\* The number of elements hashed by rphash.
RPHASH_NUM_ELEMENTS == 8

\* A faulty variant: the result is swapped with the second word, not the third.
parse_rphash_swapw(ops0, op) ==
    [res |-> "Ok",
     span |-> ops0 \o Repeat(Pad, 3)
                   \o <<Push(RPHASH_NUM_ELEMENTS)>>
                   \o <<RpPerm>>
                   \o <<SwapW>>
                   \o Repeat(Drop, 8)]

\* parse_rphash(span_ops, op): the result and the span afterwards.
parse_rphash(ops0, op) ==
    LET len == validate_op_len(op, 1, 0, 0) IN
    IF len # "Ok" THEN [res |-> len, span |-> ops0]
    ELSE IF op[1] # "rphash" THEN [res |-> unexpected_token("rphash"), span |-> ops0]
    ELSE [res |-> "Ok",
          span |-> ops0 \o Repeat(Pad, 3)
                        \o <<Push(RPHASH_NUM_ELEMENTS)>>
                        \o <<RpPerm>>
                        \o <<SwapW2>>
                        \o Repeat(Drop, 8)]

\* A faulty variant: the operation is appended before the token is checked.
parse_rpperm_pushing_first(ops0, op) ==
    LET len == validate_op_len(op, 1, 0, 0) IN
    IF len # "Ok" THEN [res |-> len, span |-> ops0 \o <<RpPerm>>]
    ELSE IF op[1] # "rpperm"
         THEN [res |-> unexpected_token("rpperm"), span |-> ops0 \o <<RpPerm>>]
    ELSE [res |-> "Ok", span |-> ops0 \o <<RpPerm>>]

\* parse_rpperm(span_ops, op): the result and the span afterwards.
parse_rpperm(ops0, op) ==
    LET len == validate_op_len(op, 1, 0, 0) IN
    IF len # "Ok" THEN [res |-> len, span |-> ops0]
    ELSE IF op[1] # "rpperm" THEN [res |-> unexpected_token("rpperm"), span |-> ops0]
    ELSE [res |-> "Ok", span |-> ops0 \o <<RpPerm>>]

----------------------------------------------------------------------------
(* Idle values: what a specification gives the variables it does not use.  *)

ZeroWord == <<0, 0, 0, 0>>
NoPrim   == [done |-> FALSE, computed |-> ZeroWord, root |-> ZeroWord, new_root |-> ZeroWord]
NoTamper == [on |-> FALSE, who |-> "node", k |-> 1]
NoInput  == [prog |-> "none", d |-> 0, i |-> 0, V_new |-> ZeroWord, V_old |-> ZeroWord,
             R |-> ZeroWord, R_new |-> ZeroWord, rest |-> <<>>, tamper |-> NoTamper,
             seg1 |-> 0, depth |-> 0, leaves |-> <<>>]
NoCall   == [fn |-> "none"]
NoToken  == [fn |-> "none", op |-> <<>>]
NoBlock  == [kind |-> "None", body |-> <<>>, hash |-> ZeroWord, proc_markers |-> <<>>]

IdleVM ==
    /\ stack = <<>> /\ tags = <<>> /\ advice_tape = <<>> /\ advice_sets = {}
    /\ ops = <<>> /\ pc = 1 /\ status = "halted" /\ err = "" /\ inp = NoInput
    /\ prim = NoPrim /\ cont = <<>> /\ ran = <<>> /\ splits = <<>>
IdleAsm == span_ops = <<>> /\ parse_result = "" /\ ntok = 0 /\ tok = NoToken
IdleBlk == block = NoBlock /\ made = NoBlock /\ appended = <<>>
IdlePure == hsh = NoCall /\ air = NoCall /\ enc = NoCall /\ assembler = NoCall

----------------------------------------------------------------------------
(* The inputs of a run: a tree, the position read or updated, the new      *)
(* value, what lies below the operands, and whether the advice provider    *)
(* was tampered with.                                                      *)

\* Leaf j of the tree with the given seed: distinct for j < 8 and per seed.
Leaf(seed, j) == <<j % 2, (j \div 2) % 2, (j \div 4) % 2, seed + 1>>
TreeLeaves(seed, d) == [j \in 1..Pow2(d) |-> Leaf(seed, j - 1)]

\* A value that is no leaf of any tree.
FreshWord == <<2, 1, 2, 1>>

Progs == {"get", "set_get", "set_getold", "cwm_getnew", "cwm_getold"}

Tampers(d) ==
    {NoTamper} \cup
    {[on |-> TRUE, who |-> w, k |-> k] :
        w \in (IF d = 0 THEN {"node"} ELSE {"node", "sibling"}), k \in 1..4}

\* The tree the provider holds under root R: the honest leaves, or the
\* leaves with element k of the node (or of its sibling) off by one.
StoredLeaves(leaves, i, t) ==
    LET pos == IF t.who = "node" THEN i
               ELSE IF i % 2 = 0 THEN i + 1 ELSE i - 1
    IN  IF t.on THEN [leaves EXCEPT ![pos + 1][t.k] = @ + 1] ELSE leaves

RestOf(n) == [j \in 1..n |-> 10 + j]
Zeros(n)  == [j \in 1..n |-> 0]
Below(n, used) ==
    RestOf(n) \o Zeros(IF used + n < MIN_STACK_DEPTH THEN MIN_STACK_DEPTH - used - n ELSE 0)

\* The span executed: one expansion, or an update followed by the stack
\* preparation for a read and the read.
Program(prog, d, i, R) ==
    CASE prog = "get"        -> mtree_get(<<>>)
      [] prog = "set_get"    -> mtree_get(mtree_set(<<>>) \o Repeat(Drop, 4)
                                   \o <<Push(i), Push(d)>>)
      [] prog = "cwm_getnew" -> mtree_get(mtree_cwm(<<>>) \o Repeat(Drop, 4)
                                   \o <<Push(i), Push(d)>>)
      [] prog = "cwm_getold" -> mtree_get(mtree_cwm(<<>>) \o Repeat(Drop, 8)
                                   \o <<Push(i), Push(d)>>)
      [] prog = "set_getold" -> mtree_get(mtree_set(<<>>) \o Repeat(Drop, 8)
                                   \o <<Push(R[1]), Push(R[2]), Push(R[3]), Push(R[4])>>
                                   \o <<Push(i), Push(d)>>)

FirstExpansion(prog) ==
    CASE prog = "get" -> mtree_get(<<>>)
      [] prog \in {"set_get", "set_getold"} -> mtree_set(<<>>)
      [] prog \in {"cwm_getnew", "cwm_getold"} -> mtree_cwm(<<>>)

IsUpdate(prog) == prog # "get"

Init ==
    /\ \E d \in 0..MaxDepth, seed \in 0..MaxSeed, prog \in Progs,
          fresh \in BOOLEAN, n \in {0, MaxRest - 2, MaxRest} :
       \E i \in 0..(Pow2(d) - 1), t \in Tampers(d) :
         LET leaves == TreeLeaves(seed, d)
             R      == MerkleRoot(leaves)
             V_old  == leaves[i + 1]
             V_new  == IF fresh THEN FreshWord ELSE V_old
             used   == IF IsUpdate(prog) THEN 10 ELSE 6
             below  == Below(n, used)
             other  == TreeLeaves(MaxSeed + 1, 1)
         IN  /\ (prog = "get") => ~fresh
             /\ stack = <<d, i>>
                        \o (IF IsUpdate(prog) THEN WordToStack(V_new) ELSE <<>>)
                        \o WordToStack(R) \o below
             /\ tags = <<"d", "i">> \o [j \in 1..(used - 2 + Len(below)) |-> "x"]
             /\ advice_tape = <<>>
             /\ advice_sets =
                  { [root |-> R, depth |-> d, leaves |-> StoredLeaves(leaves, i, t)],
                    [root |-> MerkleRoot(other), depth |-> 1, leaves |-> other] }
             /\ ops = Program(prog, d, i, R)
             /\ inp = [prog |-> prog, d |-> d, i |-> i, V_new |-> V_new, V_old |-> V_old,
                       R |-> R,
                       R_new |-> MerkleRoot([leaves EXCEPT ![i + 1] = V_new]),
                       rest |-> below, tamper |-> t,
                       seg1 |-> Len(FirstExpansion(prog)),
                       depth |-> used + Len(below), leaves |-> leaves]
    /\ pc = 1 /\ status = "running" /\ err = "" /\ prim = NoPrim
    /\ cont = <<>> /\ ran = <<>> /\ splits = <<>>
    /\ IdleAsm /\ IdleBlk /\ IdlePure

----------------------------------------------------------------------------
(* Execution of one operation (Process::execute_op).                       *)

Cur == ops[pc]
Running(k) == status = "running" /\ pc <= Len(ops) /\ Cur.k = k

VMFrame ==
    UNCHANGED <<ops, inp, cont, ran, splits,
                span_ops, parse_result, ntok, tok, block, made, appended, hsh, air, enc, assembler>>

\* The operation succeeded with the given stack.
StepTo(s, t) ==
    /\ stack' = s /\ tags' = t /\ pc' = pc + 1
    /\ UNCHANGED <<advice_tape, advice_sets, status, err, prim>>
    /\ VMFrame

\* A faulty variant: the error is noted and the run goes on.
FailAndContinue(e) ==
    /\ err' = e /\ pc' = pc + 1
    /\ UNCHANGED <<stack, tags, advice_tape, advice_sets, status, prim>>
    /\ VMFrame

\* The operation returned an error: the run ends at this operation.
Fail(e) ==
    /\ status' = "failed" /\ err' = e
    /\ UNCHANGED <<stack, tags, advice_tape, advice_sets, pc, prim>>
    /\ VMFrame

ExecPush == Running("Push") /\ StepTo(<<Cur.n>> \o stack, <<"x">> \o tags)

ExecDrop == Running("Drop") /\ StepTo(ShiftLeft(stack, 0), ShiftLeft(tags, "x"))

ExecDup == Running("Dup") /\ StepTo(op_dup(stack, Cur.n), op_dup(tags, Cur.n))

ExecSwapW == Running("SwapW") /\ StepTo(op_swapw(stack, Cur.n), op_swapw(tags, Cur.n))

ExecMovUp == Running("MovUp") /\ StepTo(op_movup(stack, Cur.n), op_movup(tags, Cur.n))

ExecMovDn == Running("MovDn") /\ StepTo(op_movdn(stack, Cur.n), op_movdn(tags, Cur.n))

ExecEqw == Running("Eqw") /\ StepTo(<<op_eqw(stack)>> \o stack, <<"x">> \o tags)

\* Assert: pops the stack; if the popped value is not 1, execution fails.
ExecAssert ==
    /\ Running("Assert")
    /\ IF stack[1] = 1 THEN StepTo(ShiftLeft(stack, 0), ShiftLeft(tags, "x"))
       ELSE Fail("FailedAssertion")

\* Read: removes the next element from the advice tape and pushes it.
ExecRead ==
    /\ Running("Read")
    /\ IF advice_tape = <<>> THEN Fail("EmptyAdviceTape")
       ELSE /\ stack' = <<Head(advice_tape)>> \o stack
            /\ tags' = <<"x">> \o tags
            /\ advice_tape' = Tail(advice_tape)
            /\ pc' = pc + 1
            /\ UNCHANGED <<advice_sets, status, err, prim>>
            /\ VMFrame

\* The tree of the provider a Merkle operation addresses: none when no tree
\* is tracked under root, or when depth or index do not fit the tree.
Addressed(root, depth, index) ==
    {e \in FindSet(advice_sets, root) : e.depth = depth /\ index < Pow2(depth)}

\* AdviceSetError: why the provider has no path for (root, depth, index).
PositionError(root, depth, index) ==
    IF depth > MaxDepth THEN "DepthTooBig"
    ELSE IF index >= Pow2(depth) THEN "InvalidIndex"
    ELSE "AdviceSetNotFound"

\* Advice(MerkleNode): for [d, i, R, ...] puts the node at (d, i) of the tree
\* with root R at the head of the advice tape.
ExecAdvice ==
    /\ Running("Advice")
    /\ LET found == Addressed(StackWord(stack, 2), stack[1], stack[2]) IN
       IF found = {} THEN Fail("AdviceSetNotFound")
       ELSE LET e == CHOOSE e \in found : TRUE IN
            /\ advice_tape' = e.leaves[stack[2] + 1] \o advice_tape
            /\ pc' = pc + 1
            /\ UNCHANGED <<stack, tags, advice_sets, status, err, prim>>
            /\ VMFrame

\* MpVerify on [d, i, V, R, ...]: the node is replaced by the root computed
\* from it and the path the provider gives for R; the rest stays.
ExecMpVerify ==
    /\ Running("MpVerify")
    /\ LET index == stack[2]
           node  == StackWord(stack, 2)
           root  == StackWord(stack, 6)
           found == Addressed(root, stack[1], index)
       IN
       IF found = {} THEN Fail(PositionError(root, stack[1], index))
       ELSE LET e        == CHOOSE e \in found : TRUE
                path     == get_merkle_path(e.leaves, index)
                computed == build_merkle_root(node, path, index)
            IN
            /\ stack' = SetWord(stack, 2, computed)
            /\ prim' = [done |-> TRUE, computed |-> computed, root |-> root,
                        new_root |-> computed]
            /\ pc' = pc + 1
            /\ UNCHANGED <<tags, advice_tape, advice_sets, status, err>>
            /\ VMFrame

\* A faulty variant: the roots are computed and the tree set is left alone.
ExecMrUpdateKeepingSets ==
    /\ Running("MrUpdate")
    /\ LET index    == stack[2]
           old_node == StackWord(stack, 2)
           new_node == StackWord(stack, 6)
           root     == StackWord(stack, 10)
           found    == Addressed(root, stack[1], index)
       IN
       IF found = {} THEN Fail(PositionError(root, stack[1], index))
       ELSE LET e        == CHOOSE e \in found : TRUE
                path     == get_merkle_path(e.leaves, index)
                computed == build_merkle_root(old_node, path, index)
                new_root == build_merkle_root(new_node, path, index)
            IN
            /\ stack' = SetWord(SetWord(stack, 2, computed), 6, new_root)
            /\ advice_sets' = advice_sets
            /\ prim' = [done |-> TRUE, computed |-> computed, root |-> root,
                        new_root |-> new_root]
            /\ pc' = pc + 1
            /\ UNCHANGED <<tags, advice_tape, status, err>>
            /\ VMFrame

\* A faulty variant: an index out of range is reduced modulo 2^depth.
ExecMrUpdateWrapping ==
    /\ Running("MrUpdate")
    /\ LET index    == stack[2] % Pow2(stack[1])
           old_node == StackWord(stack, 2)
           new_node == StackWord(stack, 6)
           root     == StackWord(stack, 10)
           found    == Addressed(root, stack[1], index)
       IN
       IF found = {} THEN Fail(PositionError(root, stack[1], index))
       ELSE LET e        == CHOOSE e \in found : TRUE
                path     == get_merkle_path(e.leaves, index)
                computed == build_merkle_root(old_node, path, index)
                new_root == build_merkle_root(new_node, path, index)
            IN
            /\ stack' = SetWord(SetWord(stack, 2, computed), 6, new_root)
            /\ advice_sets' = update_merkle_leaf(advice_sets, e, index, new_node, Cur.n = 1)
            /\ prim' = [done |-> TRUE, computed |-> computed, root |-> root,
                        new_root |-> new_root]
            /\ pc' = pc + 1
            /\ UNCHANGED <<tags, advice_tape, status, err>>
            /\ VMFrame

\* MrUpdate(copy) on [d, i, V_old, V_new, R, ...]: the old node is replaced
\* by the old root computed from the path, the new node by the new root; the
\* provider tracks the new tree, and the old one too when copy is set.
ExecMrUpdate ==
    /\ Running("MrUpdate")
    /\ LET index    == stack[2]
           old_node == StackWord(stack, 2)
           new_node == StackWord(stack, 6)
           root     == StackWord(stack, 10)
           found    == Addressed(root, stack[1], index)
       IN
       IF found = {} THEN Fail(PositionError(root, stack[1], index))
       ELSE LET e        == CHOOSE e \in found : TRUE
                path     == get_merkle_path(e.leaves, index)
                computed == build_merkle_root(old_node, path, index)
                new_root == build_merkle_root(new_node, path, index)
            IN
            /\ stack' = SetWord(SetWord(stack, 2, computed), 6, new_root)
            /\ advice_sets' = update_merkle_leaf(advice_sets, e, index, new_node, Cur.n = 1)
            /\ prim' = [done |-> TRUE, computed |-> computed, root |-> root,
                        new_root |-> new_root]
            /\ pc' = pc + 1
            /\ UNCHANGED <<tags, advice_tape, status, err>>
            /\ VMFrame

\* The span is exhausted: the run completes.
Halt ==
    /\ status = "running" /\ pc > Len(ops) /\ cont = <<>>
    /\ status' = "halted"
    /\ UNCHANGED <<stack, tags, advice_tape, advice_sets, pc, err, prim>>
    /\ VMFrame

Next ==
    \/ ExecPush \/ ExecDrop \/ ExecDup \/ ExecSwapW \/ ExecMovUp \/ ExecMovDn
    \/ ExecEqw \/ ExecAssert \/ ExecRead \/ ExecAdvice \/ ExecMpVerify
    \/ ExecMrUpdate \/ Halt

Spec == Init /\ [][Next]_vars

----------------------------------------------------------------------------
(* Properties of the executed Merkle expansions.                           *)

\* s is p followed by zeros only.
ZeroPadded(s, p) ==
    /\ Len(s) >= Len(p)
    /\ SubSeq(s, 1, Len(p)) = p
    /\ \A j \in (Len(p) + 1)..Len(s) : s[j] = 0

\* The first expansion has been executed to its end.
FirstDone == pc = inp.seg1 + 1

\* The primitive of the first expansion has run and computed the supplied root.
FirstVerified ==
    pc <= inp.seg1 + 1 /\ prim.done /\ prim.computed = inp.R /\ prim.root = inp.R

IsSet == inp.prog \in {"set_get", "set_getold"}
IsCwm == inp.prog \in {"cwm_getnew", "cwm_getold"}

\* The provider tracks, under root, the tree with the given leaves.
Tracks(root, leaves) ==
    \E e \in advice_sets : e.root = root /\ e.leaves = leaves
HasRoot(root) == FindSet(advice_sets, root) # {}

\* C1: mtree.get on [d, i, R, rest], the computed root being R, ends without
\* error in [V, R, rest]: the node on top, the root unchanged, rest in place,
\* the stack two deeper.
C1_get_leaves_node_and_root ==
    (inp.prog = "get" /\ FirstVerified) =>
        /\ status # "failed"
        /\ FirstDone =>
             /\ stack = WordToStack(inp.V_old) \o WordToStack(inp.R) \o inp.rest
             /\ Len(stack) = inp.depth + 2

C1_witness ==
    /\ inp.prog = "get" /\ FirstVerified /\ status = "halted"
    /\ inp.d = 2 /\ inp.i = 3
    /\ StackWord(stack, 0) = inp.leaves[4]

\* C2 as stated: mtree.set ends in exactly [V_new, R_new, rest], two
\* shallower than it started.
C2_as_stated ==
    (IsSet /\ FirstVerified /\ FirstDone) =>
        /\ stack = WordToStack(inp.V_new) \o WordToStack(inp.R_new) \o inp.rest
        /\ Len(stack) = inp.depth - 2

\* C2 (amended): mtree.set on [d, i, V_new, R, rest], the computed old root
\* being R, ends without error in [V_new, R_new, rest] followed by zeros
\* only: the old root is gone, one copy of V_new remains, rest is in place;
\* the stack is two shallower, but never shallower than MIN_STACK_DEPTH.
C2_set_leaves_value_and_new_root ==
    (IsSet /\ FirstVerified) =>
        /\ status # "failed"
        /\ prim.new_root = inp.R_new
        /\ FirstDone =>
             /\ ZeroPadded(stack, WordToStack(inp.V_new) \o WordToStack(inp.R_new)
                                  \o inp.rest)
             /\ Len(stack) = (IF inp.depth - 2 > MIN_STACK_DEPTH
                              THEN inp.depth - 2 ELSE MIN_STACK_DEPTH)

C2_witness ==
    /\ IsSet /\ FirstVerified /\ FirstDone
    /\ inp.d = 2 /\ inp.i = 0 /\ inp.V_new # inp.V_old
    /\ inp.depth = MIN_STACK_DEPTH
    /\ StackWord(stack, 4) = inp.R_new

\* C3: mtree.cwm on [d, i, V_new, R, rest], the computed old root being R,
\* ends without error in [V_new, R_new, R, rest]: the old root is kept below
\* the new root, rest is in place, the stack is two deeper.
C3_cwm_keeps_old_root ==
    (IsCwm /\ FirstVerified) =>
        /\ status # "failed"
        /\ prim.new_root = inp.R_new
        /\ FirstDone =>
             /\ stack = WordToStack(inp.V_new) \o WordToStack(inp.R_new)
                        \o WordToStack(inp.R) \o inp.rest
             /\ Len(stack) = inp.depth + 2

C3_witness ==
    /\ IsCwm /\ FirstVerified /\ FirstDone
    /\ inp.R_new # inp.R
    /\ StackWord(stack, 8) = inp.R /\ StackWord(stack, 4) = inp.R_new

\* C4: when the root a Merkle primitive computed differs from the supplied
\* root, Eqw yields 0, the Assert after it fails and the run ends there: the
\* expansion never completes and nothing after the Assert is executed.
C4_root_mismatch_aborts ==
    (prim.done /\ prim.computed # prim.root) =>
        /\ status # "halted"
        /\ pc <= inp.seg1
        /\ \A j \in 1..(pc - 1) : ops[j] # AssertOp
        /\ (pc > 1 /\ ops[pc - 1] = Eqw) => (stack[1] = 0 /\ ops[pc] = AssertOp)
        /\ status = "failed" => (ops[pc] = AssertOp /\ err = "FailedAssertion")

C4_witness ==
    /\ prim.done /\ prim.computed # prim.root
    /\ inp.prog = "get" /\ inp.tamper.who = "sibling"
    /\ status = "failed" /\ err = "FailedAssertion"

\* The provider was not tampered with.
Honest == ~inp.tamper.on

\* The leaves of the tree after the update of the run.
NewLeaves == [inp.leaves EXCEPT ![inp.i + 1] = inp.V_new]

\* C5: set(d, i, V_new, R) followed by get(d, i, R_new) against the same
\* advice provider succeeds and returns V_new on top of the unchanged R_new.
C5_set_then_get_returns_new_value ==
    (inp.prog = "set_get" /\ Honest) =>
        /\ status # "failed"
        /\ status = "halted" =>
             ZeroPadded(stack, WordToStack(inp.V_new) \o WordToStack(inp.R_new)
                               \o inp.rest)

C5_witness ==
    /\ inp.prog = "set_get" /\ Honest /\ status = "halted"
    /\ inp.d = 2 /\ inp.i = 3 /\ inp.V_new # inp.V_old
    /\ StackWord(stack, 0) = inp.V_new /\ StackWord(stack, 4) = inp.R_new

StoredEntry ==
    [root |-> inp.R, depth |-> inp.d,
     leaves |-> StoredLeaves(inp.leaves, inp.i, inp.tamper)]
InitialSets ==
    LET other == TreeLeaves(MaxSeed + 1, 1)
    IN {StoredEntry, [root |-> MerkleRoot(other), depth |-> 1, leaves |-> other]}

\* The stored tree with the node at index i replaced by V_new.
UpdatedEntry ==
    LET leaves == [StoredEntry.leaves EXCEPT ![inp.i + 1] = inp.V_new]
    IN [root |-> MerkleRoot(leaves), depth |-> inp.d, leaves |-> leaves]

\* The set or cwm expansion has aborted at its root-equality assertion.
AbortedAtRootAssertion ==
    /\ IsUpdate(inp.prog) /\ status = "failed" /\ err = "FailedAssertion"
    /\ pc <= inp.seg1 /\ ops[pc] = AssertOp

----------------------------------------------------------------------------
(* Where the depth and index scalars are while the first expansion runs.   *)

\* The index in ops of the Merkle primitive of the first expansion.
PrimIdx == CHOOSE j \in 1..inp.seg1 : ops[j].k \in {"MpVerify", "MrUpdate"}

Pos(t)   == CHOOSE j \in 1..Len(tags) : tags[j] = t
Count(t) == Cardinality({j \in 1..Len(tags) : tags[j] = t})

\* A word-sized manipulation: a word swap, or one step of the four-element
\* copy or read of a word.
WordOp(op) == op.k \in {"SwapW", "Dup", "Read"}

\* depth and index lie below every word operand, directly above rest.
BelowOperands ==
    /\ Len(tags) >= Len(inp.rest) + 2
    /\ tags[Len(tags) - Len(inp.rest) - 1] = "d"
    /\ tags[Len(tags) - Len(inp.rest)] = "i"

\* depth is at position 0 and index at position 1, restored by two moves.
RestoredByMoves ==
    /\ pc > 2 /\ ops[pc - 1].k = "MovUp" /\ ops[pc - 2].k = "MovUp"
    /\ tags[1] = "d" /\ tags[2] = "i"
    /\ stack[1] = inp.d /\ stack[2] = inp.i

BeforePrim == inp.prog # "none" /\ status = "running" /\ pc < PrimIdx
AtPrim     == inp.prog # "none" /\ status = "running" /\ pc = PrimIdx

\* C7 as stated: depth and index are below the word operands at every
\* word-sized manipulation that precedes the primitive, and the two
\* operations right before the primitive restore them to positions 0 and 1.
C7_as_stated ==
    /\ (BeforePrim /\ WordOp(Cur)) => BelowOperands
    /\ AtPrim => RestoredByMoves

\* C7 (amended): in every expansion depth and index are moved below the word
\* operands before the first word-sized manipulation, and the two operations
\* right before the primitive are the moves that restore depth to position 0
\* and index to position 1.  In get they stay below the operands at every
\* word-sized manipulation in between.  In set and cwm they are below only
\* for the word swap: they are moved back on top for the advice injection,
\* and the word-sized copy and read that follow run with the pair on top of
\* or between the words, never copying, splitting or reordering the pair.
C7_depth_index_layout ==
    /\ (BeforePrim /\ WordOp(Cur)) =>
          /\ Count("d") = 1 /\ Count("i") = 1 /\ Pos("i") = Pos("d") + 1
          /\ (inp.prog = "get" \/ Cur.k = "SwapW") => BelowOperands
          /\ (\A j \in 1..(pc - 1) : ~WordOp(ops[j])) => BelowOperands
    /\ AtPrim => RestoredByMoves

C7_witness ==
    /\ AtPrim /\ RestoredByMoves /\ IsSet
    /\ inp.d = 2 /\ inp.i = 1

----------------------------------------------------------------------------
(* The assembler parsing Merkle instructions into a span.                  *)

\* Tokens, as their dot-separated parts.
Tokens ==
    { <<"mtree", "get">>, <<"mtree", "set">>, <<"mtree", "cwm">>,
      <<"mtree">>, <<"mtree", "get", "12">>, <<"rpperm", "get">>, <<"mtree", "xyz">> }

InitAsm ==
    /\ span_ops = <<>> /\ parse_result = "" /\ ntok = 0 /\ tok = NoToken
    /\ IdleVM /\ IdleBlk /\ IdlePure

\* One call of parse_mtree; an error ends the compilation.
ParseMtree ==
    /\ ntok < MaxInstr /\ parse_result \in {"", "Ok"}
    /\ \E op \in Tokens :
         LET r == parse_mtree(span_ops, op) IN
         /\ span_ops' = r.span
         /\ parse_result' = r.res
         /\ tok' = [fn |-> "parse_mtree", op |-> op]
    /\ ntok' = ntok + 1
    /\ UNCHANGED <<vmVars, blkVars, pureVars>>

NextAsm == ParseMtree

SpecAsm == InitAsm /\ [][NextAsm]_vars

\* The operations the interface section lists for the expansion.
ListedKinds ==
    {"Pad", "Drop", "Dup", "Swap", "SwapW", "MovUp", "MovDn",
     "RpPerm", "MpVerify", "MrUpdate"}

\* C8 as stated: every operation emitted by the Merkle expansion is a pad,
\* drop, dup, swap or move variant, the permutation, the path verification
\* or the root update.
C8_as_stated ==
    \A j \in 1..Len(span_ops) : span_ops[j].k \in ListedKinds

\* C8 (amended): every operation emitted by the Merkle expansion is one of
\* those listed, or the advice injection Advice(MerkleNode), the advice read
\* Read, the word comparison Eqw or Assert; the root update carries a
\* boolean parameter.
C8_emitted_operations ==
    \A j \in 1..Len(span_ops) :
        /\ span_ops[j].k \in ListedKinds \cup {"Advice", "Read", "Eqw", "Assert"}
        /\ span_ops[j].k = "MrUpdate" => span_ops[j].n \in {0, 1}
        /\ span_ops[j].k = "Advice" => span_ops[j] = AdviceMerkleNode

C8_witness ==
    /\ parse_result = "Ok" /\ ntok = 3
    /\ \E a, b, c \in 1..Len(span_ops) :
         /\ span_ops[a] = MpVerify
         /\ span_ops[b] = MrUpdate(TRUE)
         /\ span_ops[c] = MrUpdate(FALSE)

----------------------------------------------------------------------------
(* Code blocks (core/src/program/blocks).  A block is a record             *)
(* [kind, body, hash, proc_markers]; body holds the two children (the      *)
(* field branches of a Split).                                             *)

\* CodeBlock::hash
hash(b) == b.hash

\* A span block with the given digest.
SpanBlock(h) == [kind |-> "Span", body |-> <<>>, hash |-> h, proc_markers |-> <<>>]

\* Faulty variants: a Join hashing its children in reverse order, and an
\* append that replaces the markers.
Join_new_reversed(body) ==
    [kind |-> "Join", body |-> body,
     hash |-> merge(<<hash(body[2]), hash(body[1])>>),
     proc_markers |-> <<>>]
Split_append_proc_marker_replacing(b, proc_marker) ==
    [b EXCEPT !.proc_markers = <<proc_marker>>]

Join_new(body) ==
    [kind |-> "Join", body |-> body,
     hash |-> merge(<<hash(body[1]), hash(body[2])>>),
     proc_markers |-> <<>>]
Join_hash(b)   == b.hash
Join_first(b)  == b.body[1]
Join_second(b) == b.body[2]
Join_proc_markers(b) == b.proc_markers
Join_append_proc_marker(b, proc_marker) ==
    [b EXCEPT !.proc_markers = Append(@, proc_marker)]

Split_new(t_branch, f_branch) ==
    [kind |-> "Split", body |-> <<t_branch, f_branch>>,
     hash |-> merge(<<hash(t_branch), hash(f_branch)>>),
     proc_markers |-> <<>>]
Split_hash(b)     == b.hash
Split_on_true(b)  == b.body[1]
Split_on_false(b) == b.body[2]
Split_proc_markers(b) == b.proc_markers
Split_append_proc_marker(b, proc_marker) ==
    [b EXCEPT !.proc_markers = Append(@, proc_marker)]

\* The blocks the constructors are given: spans, and blocks built before.
Children ==
    LET s1 == SpanBlock(<<1, 0, 2, 0>>)
        s2 == SpanBlock(<<0, 1, 0, 2>>)
        s3 == SpanBlock(<<1, 1, 1, 1>>)
    IN  { s1, s2, s3,
          Join_append_proc_marker(Join_new(<<s1, s2>>), "proc_a"),
          Split_new(s2, s3) }

Markers == {"proc_a", "proc_b"}

InitBlk ==
    /\ block = NoBlock /\ made = NoBlock /\ appended = <<>>
    /\ IdleVM /\ IdleAsm /\ IdlePure

NewJoin ==
    /\ \E a, b \in Children :
         /\ block' = Join_new(<<a, b>>)
         /\ made' = Join_new(<<a, b>>)
    /\ appended' = <<>>
    /\ UNCHANGED <<vmVars, asmVars, pureVars>>

NewSplit ==
    /\ \E t, f \in Children :
         /\ block' = Split_new(t, f)
         /\ made' = Split_new(t, f)
    /\ appended' = <<>>
    /\ UNCHANGED <<vmVars, asmVars, pureVars>>

JoinAppendProcMarker ==
    /\ block.kind = "Join" /\ Len(appended) < MaxMarkers
    /\ \E m \in Markers :
         /\ block' = Join_append_proc_marker(block, m)
         /\ appended' = Append(appended, m)
    /\ UNCHANGED <<made, vmVars, asmVars, pureVars>>

SplitAppendProcMarker ==
    /\ block.kind = "Split" /\ Len(appended) < MaxMarkers
    /\ \E m \in Markers :
         /\ block' = Split_append_proc_marker(block, m)
         /\ appended' = Append(appended, m)
    /\ UNCHANGED <<made, vmVars, asmVars, pureVars>>

NextBlk == NewJoin \/ NewSplit \/ JoinAppendProcMarker \/ SplitAppendProcMarker

SpecBlk == InitBlk /\ [][NextBlk]_vars

\* C9: the hash of a Join is merge([first.hash(), second.hash()]) and the
\* hash of a Split is merge([on_true.hash(), on_false.hash()]), children in
\* that order; hash() returns the digest stored at construction.
C9_block_hash_is_merge_of_children ==
    /\ block.kind = "Join" =>
          /\ Join_hash(block) = merge(<<hash(Join_first(block)), hash(Join_second(block))>>)
          /\ Join_hash(block) = Join_hash(made)
    /\ block.kind = "Split" =>
          /\ Split_hash(block) =
                merge(<<hash(Split_on_true(block)), hash(Split_on_false(block))>>)
          /\ Split_hash(block) = Split_hash(made)

C9_witness ==
    /\ block.kind = "Split" /\ appended # <<>>
    /\ Split_on_true(block).kind = "Join" /\ Split_on_false(block).kind = "Span"
    /\ hash(Split_on_true(block)) # hash(Split_on_false(block))
    /\ Split_hash(block) # merge(<<hash(Split_on_false(block)), hash(Split_on_true(block))>>)

\* C10: after any sequence of append_proc_marker calls the hash and the
\* children of a Join or Split are those it was constructed with, and
\* proc_markers holds exactly the appended markers in append order.
C10_markers_leave_hash_and_children ==
    /\ block.kind = "Join" =>
          /\ Join_hash(block) = Join_hash(made)
          /\ Join_first(block) = Join_first(made)
          /\ Join_second(block) = Join_second(made)
          /\ Join_proc_markers(block) = appended
    /\ block.kind = "Split" =>
          /\ Split_hash(block) = Split_hash(made)
          /\ Split_on_true(block) = Split_on_true(made)
          /\ Split_on_false(block) = Split_on_false(made)
          /\ Split_proc_markers(block) = appended
    /\ block.kind = made.kind

C10_witness ==
    /\ block.kind = "Join" /\ appended = <<"proc_b", "proc_a">>
    /\ Join_proc_markers(block) = appended
    /\ Join_first(block).kind = "Split"

\* C33: the hash of a block commits to its kind: the hash of Join::new([a, b])
\* differs from the hash of Split::new(a, b) for all code blocks a and b.
C33_as_stated ==
    /\ block.kind = "Join" =>
          Join_hash(block) # Split_hash(Split_new(Join_first(block), Join_second(block)))
    /\ block.kind = "Split" =>
          Split_hash(block) # Join_hash(Join_new(<<Split_on_true(block), Split_on_false(block)>>))

----------------------------------------------------------------------------
(* Execution of a program: a tree of code blocks whose spans hold the      *)
(* operations.                                                             *)

\* The field of the model: Felt scaled down to a small prime field.
FieldPrime == 17

\* a.inv() for a # 0
inv(a) == CHOOSE x \in 1..(FieldPrime - 1) : (a * x) % FieldPrime = 1

\* The permutation of the 12-element sponge state: every output element
\* depends on its own input element and on the neighbouring one.
apply_permutation(state) ==
    [k \in 1..12 |-> (state[k] + 2 * state[(k % 12) + 1] + k) % FieldPrime]

\* RpPerm: the top 12 stack elements are the sponge state, its first element
\* (capacity) deepest at position 11, its last element on top.
op_rpperm(s) ==
    LET state == [k \in 1..12 |-> s[13 - k]]
        out   == apply_permutation(state)
    IN  [j \in 1..Len(s) |-> IF j <= 12 THEN out[13 - j] ELSE s[j]]

\* A span with the given operations; id tells the spans of a program apart.
Span_new(id, operations) ==
    [kind |-> "Span", body |-> operations, hash |-> <<id, 0, 0, 0>>,
     proc_markers |-> <<>>]

\* The hashes of the spans of a block.
RECURSIVE SpansOf(_)
SpansOf(b) ==
    IF b.kind = "Span" THEN {b.hash}
    ELSE SpansOf(b.body[1]) \cup SpansOf(b.body[2])

\* Operation sequences of the programs run: each fails or not depending on
\* what it pushed.
Bodies ==
    { <<Push(5)>>,
      <<Push(1), Not, Drop>>,
      <<Push(2), Not, Push(5)>>,
      <<Push(3), Inv>>,
      <<Push(0), Inv, Push(5)>>,
      <<Push(1), AssertOp, Pad>>,
      <<Push(0), AssertOp, Push(5)>>,
      <<AdviceMerkleNode, Push(5)>> }

BranchBodies == { <<Push(5)>>, <<Push(0), Inv, Push(5)>>, <<Push(1), AssertOp, Pad>> }

Shapes == {"split", "join", "nest"}

\* The program of a shape: a Split, a Join of a span and a Split, a Split of
\* a Split and a Join.
RunProgram(shape, a, t, f) ==
    CASE shape = "split" -> Split_new(Span_new(1, t), Span_new(2, f))
      [] shape = "join"  ->
            Join_new(<<Span_new(1, a), Split_new(Span_new(2, t), Span_new(3, f))>>)
      [] shape = "nest"  ->
            Split_new(Split_new(Span_new(1, t), Span_new(2, f)),
                      Join_new(<<Span_new(3, a), Span_new(4, t)>>))

\* The words hashed by rphash.
HashWords == { Leaf(seed, j) : seed \in 0..MaxSeed, j \in 0..1 }

RunInput(prog, program, s, below) ==
    [prog |-> prog, program |-> program, stack0 |-> s, rest |-> below,
     depth |-> Len(s)]

RunFrame ==
    /\ status = "running" /\ err = "" /\ pc = 1 /\ ops = <<>>
    /\ ran = <<>> /\ splits = <<>>
    /\ tags = [j \in 1..Len(stack) |-> "x"]
    /\ advice_tape = <<>> /\ advice_sets = {} /\ prim = NoPrim
    /\ IdleAsm /\ IdleBlk /\ IdlePure

InitRun ==
    /\ \/ \E shape \in Shapes, a \in Bodies, t \in BranchBodies, f \in BranchBodies,
             c1 \in 0..2, c2 \in 0..2, n \in {0, MaxRest} :
            LET below == Below(n, 2) IN
            /\ stack = <<c1, c2>> \o below
            /\ cont = <<RunProgram(shape, a, t, f)>>
            /\ inp = RunInput(shape, RunProgram(shape, a, t, f), stack, below)
       \/ \E A \in HashWords, B \in HashWords, n \in {0, MaxRest, MaxRest + 4},
             more \in BOOLEAN :
            LET below == Below(n, 8)
                hspan == Span_new(1, parse_rphash(<<>>, <<"rphash">>).span)
                program == IF more THEN Join_new(<<hspan, Span_new(2, <<Push(5), Drop>>)>>)
                           ELSE hspan
            IN
            /\ stack = WordToStack(B) \o WordToStack(A) \o below
            /\ cont = <<program>>
            /\ inp = RunInput("rphash", program, stack, below)
    /\ RunFrame

\* The current span is exhausted and a block is waiting.
AtBlock(kind) ==
    /\ status = "running" /\ pc > Len(ops)
    /\ cont # <<>> /\ Head(cont).kind = kind

BlockFrame ==
    UNCHANGED <<advice_tape, advice_sets, inp, prim,
                span_ops, parse_result, ntok, tok, block, made, appended, hsh, air, enc, assembler>>

\* A span: its operations are executed one after the other.
EnterSpan ==
    /\ AtBlock("Span")
    /\ ops' = Head(cont).body /\ pc' = 1
    /\ cont' = Tail(cont)
    /\ ran' = Append(ran, Head(cont).hash)
    /\ UNCHANGED <<stack, tags, status, err, splits>>
    /\ BlockFrame

\* A Join: the joined blocks are executed in sequence.
EnterJoin ==
    /\ AtBlock("Join")
    /\ cont' = <<Join_first(Head(cont)), Join_second(Head(cont))>> \o Tail(cont)
    /\ UNCHANGED <<stack, tags, ops, pc, status, err, ran, splits>>
    /\ BlockFrame

\* A faulty variant: every value other than 0 selects the true branch.
EnterSplitNonZero ==
    /\ AtBlock("Split")
    /\ LET b == Head(cont)
           condition == stack[1]
       IN
       /\ stack' = ShiftLeft(stack, 0)
       /\ tags' = ShiftLeft(tags, "x")
       /\ splits' = Append(splits,
             [cond |-> condition, before |-> stack, after |-> ShiftLeft(stack, 0),
              t |-> SpansOf(Split_on_true(b)), f |-> SpansOf(Split_on_false(b)),
              nran |-> Len(ran)])
       /\ IF condition = 0
          THEN cont' = <<Split_on_false(b)>> \o Tail(cont)
          ELSE cont' = <<Split_on_true(b)>> \o Tail(cont)
    /\ UNCHANGED <<ops, pc, ran, status, err>>
    /\ BlockFrame

\* A Split: the top of the stack is popped; 1 selects the true branch, 0 the
\* false branch, anything else fails the program.
EnterSplit ==
    /\ AtBlock("Split")
    /\ LET b == Head(cont)
           condition == stack[1]
       IN
       /\ stack' = ShiftLeft(stack, 0)
       /\ tags' = ShiftLeft(tags, "x")
       /\ splits' = Append(splits,
             [cond |-> condition, before |-> stack, after |-> ShiftLeft(stack, 0),
              t |-> SpansOf(Split_on_true(b)), f |-> SpansOf(Split_on_false(b)),
              nran |-> Len(ran)])
       /\ IF condition = 1
          THEN cont' = <<Split_on_true(b)>> \o Tail(cont) /\ UNCHANGED <<status, err>>
          ELSE IF condition = 0
          THEN cont' = <<Split_on_false(b)>> \o Tail(cont) /\ UNCHANGED <<status, err>>
          ELSE status' = "failed" /\ err' = "NotBinaryValue" /\ UNCHANGED cont
    /\ UNCHANGED <<ops, pc, ran>>
    /\ BlockFrame

ExecPad == Running("Pad") /\ StepTo(<<0>> \o stack, <<"x">> \o tags)

ExecRpPerm == Running("RpPerm") /\ StepTo(op_rpperm(stack), tags)

\* op_inv: fails on ZERO, else replaces the top element by its inverse.
ExecInv ==
    /\ Running("Inv")
    /\ IF stack[1] = 0 THEN Fail("DivideByZero")
       ELSE StepTo([stack EXCEPT ![1] = inv(stack[1])], tags)

\* op_not: fails on a non-binary value, else replaces the top element a by
\* ONE - a.
ExecNot ==
    /\ Running("Not")
    /\ IF stack[1] \notin {0, 1} THEN Fail("NotBinaryValue")
       ELSE StepTo([stack EXCEPT ![1] = 1 - stack[1]], tags)

NextRun ==
    \/ EnterSpan \/ EnterJoin \/ EnterSplit
    \/ ExecPush \/ ExecPad \/ ExecDrop \/ ExecSwapW \/ ExecRpPerm
    \/ ExecAssert \/ ExecInv \/ ExecNot \/ ExecAdvice \/ Halt

SpecRun == InitRun /\ [][NextRun]_vars

\* The processor takes a step whenever one is possible.
SpecRunLive == InitRun /\ [][NextRun]_vars /\ WF_vars(NextRun)

\* The spans entered after the k-th executed Split.
EnteredAfter(k) == {ran[j] : j \in (splits[k].nran + 1)..Len(ran)}

\* C11: a Split pops exactly one stack element; on 1 only spans of the true
\* branch are executed, on 0 only spans of the false branch, and on any
\* other value the program fails with no span of either branch executed.
C11_split_executes_one_branch ==
    \A k \in 1..Len(splits) :
        LET e == splits[k] IN
        /\ e.cond = e.before[1]
        /\ e.after = Tail(e.before) \o (IF Len(e.before) > MIN_STACK_DEPTH THEN <<>> ELSE <<0>>)
        /\ e.cond = 1 =>
              /\ EnteredAfter(k) \cap e.f = {}
              /\ Len(ran) > e.nran => ran[e.nran + 1] \in e.t
              /\ status = "halted" => EnteredAfter(k) \cap e.t # {}
        /\ e.cond = 0 =>
              /\ EnteredAfter(k) \cap e.t = {}
              /\ Len(ran) > e.nran => ran[e.nran + 1] \in e.f
              /\ status = "halted" => EnteredAfter(k) \cap e.f # {}
        /\ e.cond \notin {0, 1} =>
              /\ status = "failed" /\ err = "NotBinaryValue"
              /\ EnteredAfter(k) = {}
              /\ k = Len(splits)

C11_witness ==
    /\ status = "halted" /\ inp.prog = "nest"
    /\ Len(splits) = 2 /\ splits[1].cond = 1 /\ splits[2].cond = 0
    /\ ran = << <<2, 0, 0, 0>> >>

\* C12: once an operation has returned an error no further step is taken
\* and the outcome of the run is that error; a run without error reaches
\* the halt state: every run ends halted or failed.
C12_failure_ends_the_run ==
    /\ [][status # "failed"]_vars
    /\ [](err # "" <=> status = "failed")
    /\ <>(status \in {"halted", "failed"})

C12_witness ==
    /\ status = "failed" /\ err = "DivideByZero"
    /\ pc < Len(ops) /\ cont # <<>>

\* The run hashes two words with rphash; the span of rphash is exhausted.
IsRphash == inp.prog = "rphash"
RphashDone == IsRphash /\ ran = << <<1, 0, 0, 0>> >> /\ pc > Len(ops)

\* The word RpPerm leaves on top when rphash is run on the initial stack.
HashResult ==
    SubSeq(op_rpperm(<<RPHASH_NUM_ELEMENTS, 0, 0, 0>> \o inp.stack0), 1, 4)

\* C13 as stated: rphash on [B, A, rest] ends in exactly [E, rest], four
\* shallower than it started.
C13_as_stated ==
    RphashDone =>
        /\ stack = HashResult \o inp.rest
        /\ Len(stack) = inp.depth - 4

\* C13 (amended): the rphash expansion is Pad, Pad, Pad, Push(8), RpPerm,
\* SwapW2 and eight Drop; on [B, A, rest] it ends without error in [E, rest]
\* followed by zeros only, E being the top word left by RpPerm: the two
\* input words are gone, rest is in place, and the stack is four shallower,
\* but never shallower than MIN_STACK_DEPTH.
C13_rphash_leaves_result_word ==
    IsRphash =>
        /\ status # "failed"
        /\ RphashDone =>
             /\ ops = <<Pad, Pad, Pad, Push(8), RpPerm, SwapW2,
                        Drop, Drop, Drop, Drop, Drop, Drop, Drop, Drop>>
             /\ ZeroPadded(stack, HashResult \o inp.rest)
             /\ Len(stack) = (IF inp.depth - 4 > MIN_STACK_DEPTH
                              THEN inp.depth - 4 ELSE MIN_STACK_DEPTH)

C13_witness ==
    /\ RphashDone /\ status = "halted"
    /\ inp.depth = MIN_STACK_DEPTH + 1
    /\ Len(stack) = MIN_STACK_DEPTH
    /\ SubSeq(stack, 1, 4) = HashResult
    /\ SubSeq(inp.stack0, 1, 4) # SubSeq(inp.stack0, 5, 8)

\* C14 as stated: when RpPerm is executed in rphash, the eight elements to
\* be hashed are at stack positions 0..7 and the capacity word, the element
\* count 8 and three zeros, is at positions 8..11.
C14_as_stated ==
    (IsRphash /\ Running("RpPerm")) =>
        /\ SubSeq(stack, 1, 8) = SubSeq(inp.stack0, 1, 8)
        /\ SubSeq(stack, 9, 12) \in {<<0, 0, 0, RPHASH_NUM_ELEMENTS>>,
                                     <<RPHASH_NUM_ELEMENTS, 0, 0, 0>>}

----------------------------------------------------------------------------
(* The hasher chiplet (core/src/chiplets/hasher.rs).  States are 12-element *)
(* sequences; element k of the source is element k + 1 here.                *)

STATE_WIDTH == 12
RATE_LEN == 8
CAPACITY_LEN == STATE_WIDTH - RATE_LEN
DIGEST_LEN == 4
\* The output portion of the state: elements 4, 5, 6 and 7 (end exclusive).
DIGEST_RANGE == [start |-> 4, end |-> 8]
NUM_SELECTORS == 3

LINEAR_HASH == <<1, 0, 0>>
LINEAR_HASH_LABEL == 3
MP_VERIFY == <<1, 0, 1>>
MP_VERIFY_LABEL == 11
MR_UPDATE_OLD == <<1, 1, 0>>
MR_UPDATE_OLD_LABEL == 7
MR_UPDATE_NEW == <<1, 1, 1>>
MR_UPDATE_NEW_LABEL == 15
RETURN_HASH == <<0, 0, 0>>
RETURN_HASH_LABEL == 1
RETURN_STATE == <<0, 0, 1>>
RETURN_STATE_LABEL == 9

Modes == {"LINEAR_HASH", "MP_VERIFY", "MR_UPDATE_OLD", "MR_UPDATE_NEW",
          "RETURN_HASH", "RETURN_STATE"}

\* A faulty variant: MR_UPDATE_NEW given the selectors of MR_UPDATE_OLD.
SelectorsCopied(mode) ==
    CASE mode = "LINEAR_HASH"   -> LINEAR_HASH
      [] mode = "MP_VERIFY"     -> MP_VERIFY
      [] mode = "MR_UPDATE_OLD" -> MR_UPDATE_OLD
      [] mode = "MR_UPDATE_NEW" -> MR_UPDATE_OLD
      [] mode = "RETURN_HASH"   -> RETURN_HASH
      [] mode = "RETURN_STATE"  -> RETURN_STATE

\* The selector constant of a mode.
Selectors(mode) ==
    CASE mode = "LINEAR_HASH"   -> LINEAR_HASH
      [] mode = "MP_VERIFY"     -> MP_VERIFY
      [] mode = "MR_UPDATE_OLD" -> MR_UPDATE_OLD
      [] mode = "MR_UPDATE_NEW" -> MR_UPDATE_NEW
      [] mode = "RETURN_HASH"   -> RETURN_HASH
      [] mode = "RETURN_STATE"  -> RETURN_STATE

\* A faulty variant: the labels without the offset of one.
LabelNoOffset(mode) ==
    CASE mode = "LINEAR_HASH"   -> LINEAR_HASH_LABEL - 1
      [] mode = "MP_VERIFY"     -> MP_VERIFY_LABEL - 1
      [] mode = "MR_UPDATE_OLD" -> MR_UPDATE_OLD_LABEL - 1
      [] mode = "MR_UPDATE_NEW" -> MR_UPDATE_NEW_LABEL - 1
      [] mode = "RETURN_HASH"   -> RETURN_HASH_LABEL - 1
      [] mode = "RETURN_STATE"  -> RETURN_STATE_LABEL - 1

\* The label constant of a mode.
Label(mode) ==
    CASE mode = "LINEAR_HASH"   -> LINEAR_HASH_LABEL
      [] mode = "MP_VERIFY"     -> MP_VERIFY_LABEL
      [] mode = "MR_UPDATE_OLD" -> MR_UPDATE_OLD_LABEL
      [] mode = "MR_UPDATE_NEW" -> MR_UPDATE_NEW_LABEL
      [] mode = "RETURN_HASH"   -> RETURN_HASH_LABEL
      [] mode = "RETURN_STATE"  -> RETURN_STATE_LABEL

\* Field addition.
FAdd(a, b) == (a + b) % FieldPrime

init_state(init_values, num_elements) ==
    <<num_elements, 0, 0, 0>> \o init_values

init_state_from_words(w1, w2) ==
    <<8, 0, 0, 0>> \o w1 \o w2

\* A faulty variant: the values overwrite the rate.
absorb_overwriting(state, values) ==
    [k \in 1..STATE_WIDTH |-> IF k <= 4 THEN state[k] ELSE values[k - 4]]

absorb_into_state(state, values) ==
    [k \in 1..STATE_WIDTH |->
        IF k <= 4 THEN state[k] ELSE FAdd(state[k], values[k - 4])]

\* A faulty variant: the digest read from the last four elements.
get_digest_tail(state) ==
    SubSeq(state, STATE_WIDTH - DIGEST_LEN + 1, STATE_WIDTH)

get_digest(state) ==
    SubSeq(state, DIGEST_RANGE.start + 1, DIGEST_RANGE.end)

\* Blocks of eight values: an arithmetic progression in the field.
RateBlock(a, b) == [k \in 1..RATE_LEN |-> (a * k + b) % FieldPrime]
RateBlocks == { RateBlock(a, b) : a \in 1..2, b \in {0, 9, 16} }

HasherCall(fn, mode, state, prev, values, out, n) ==
    [fn |-> fn, mode |-> mode, sel |-> Selectors(mode), label |-> Label(mode),
     state |-> state, prev |-> prev, values |-> values, out |-> out, n |-> n]

\* A hasher state initialised for a computation in some mode.
InitHasher ==
    /\ \E mode \in Modes, init_values \in RateBlocks, words \in BOOLEAN :
         LET state == IF words
                      THEN init_state_from_words(SubSeq(init_values, 1, 4),
                                                 SubSeq(init_values, 5, 8))
                      ELSE init_state(init_values, RATE_LEN * (MaxAbsorb + 1))
         IN hsh = HasherCall("init_state", mode, state, state, init_values, <<>>, 0)
    /\ air = NoCall /\ enc = NoCall /\ assembler = NoCall
    /\ IdleVM /\ IdleAsm /\ IdleBlk

HasherFrame == UNCHANGED <<vmVars, asmVars, blkVars, air, enc, assembler>>

AbsorbIntoState ==
    /\ hsh.fn \in {"init_state", "absorb_into_state"} /\ hsh.n < MaxAbsorb
    /\ \E values \in RateBlocks :
         hsh' = HasherCall("absorb_into_state", hsh.mode,
                           absorb_into_state(hsh.state, values), hsh.state,
                           values, <<>>, hsh.n + 1)
    /\ HasherFrame

GetDigest ==
    /\ hsh.fn \in {"init_state", "absorb_into_state"}
    /\ hsh' = HasherCall("get_digest", hsh.mode, hsh.state, hsh.prev, hsh.values,
                         get_digest(hsh.state), hsh.n)
    /\ HasherFrame

NextHasher == AbsorbIntoState \/ GetDigest

SpecHasher == InitHasher /\ [][NextHasher]_vars

\* C15: the label of each of the six selector constants [s0, s1, s2] is
\* 1 + (c + 2 s0 + 4 s1 + 8 s2) with chiplet bit c = 0: the labels are 3,
\* 11, 7, 15, 1 and 9.
C15_label_is_one_plus_selector_value ==
    LET c == 0 IN
    /\ hsh.label = 1 + (c * 1 + hsh.sel[1] * 2 + hsh.sel[2] * 4 + hsh.sel[3] * 8)
    /\ hsh.mode = "LINEAR_HASH"   => hsh.label = 3
    /\ hsh.mode = "MP_VERIFY"     => hsh.label = 11
    /\ hsh.mode = "MR_UPDATE_OLD" => hsh.label = 7
    /\ hsh.mode = "MR_UPDATE_NEW" => hsh.label = 15
    /\ hsh.mode = "RETURN_HASH"   => hsh.label = 1
    /\ hsh.mode = "RETURN_STATE"  => hsh.label = 9

C15_witness ==
    /\ hsh.fn = "absorb_into_state" /\ hsh.mode = "MP_VERIFY"
    /\ hsh.sel = <<1, 0, 1>> /\ hsh.label = 11

\* C16: the six selector constants are 3-tuples of 0/1 elements, pairwise
\* distinct, and so are their labels: the label of a row belongs to its mode
\* only, and so does its selector vector.
C16_selectors_and_labels_distinct ==
    /\ Cardinality(Modes) = 6
    /\ Len(hsh.sel) = NUM_SELECTORS
    /\ \A k \in 1..NUM_SELECTORS : hsh.sel[k] \in {0, 1}
    /\ {m \in Modes : Label(m) = hsh.label} = {hsh.mode}
    /\ {m \in Modes : Selectors(m) = hsh.sel} = {hsh.mode}

C16_witness ==
    /\ hsh.fn = "get_digest" /\ hsh.mode = "MR_UPDATE_OLD"
    /\ hsh.sel = <<1, 1, 0>> /\ hsh.label = 7

\* C17: absorb_into_state adds values[k] to state[4 + k] for k = 0..7, in
\* the field, and leaves state[0..3] unchanged; a rate element that was not
\* zero does not end up equal to the absorbed value.
C17_absorb_adds_into_rate ==
    hsh.fn = "absorb_into_state" =>
        /\ \A k \in 0..7 :
              /\ hsh.state[4 + k + 1] = (hsh.prev[4 + k + 1] + hsh.values[k + 1]) % FieldPrime
              /\ hsh.prev[4 + k + 1] # 0 => hsh.state[4 + k + 1] # hsh.values[k + 1]
        /\ \A k \in 0..3 : hsh.state[k + 1] = hsh.prev[k + 1]
        /\ Len(hsh.state) = 12

C17_witness ==
    /\ hsh.fn = "absorb_into_state" /\ hsh.n = 2
    /\ hsh.prev[1] # 0
    /\ \E k \in 0..7 : hsh.prev[4 + k + 1] + hsh.values[k + 1] >= FieldPrime
    /\ \A k \in 0..7 : hsh.prev[4 + k + 1] # 0

\* First and last element (counted from 0) of the digest.
DigestFirst == DIGEST_RANGE.start
DigestLast == DIGEST_RANGE.end - 1

FSub(a, b) == (a + FieldPrime - (b % FieldPrime)) % FieldPrime
FMul(a, b) == (a * b) % FieldPrime

RECURSIVE FPow(_, _)
FPow(a, n) == IF n = 0 THEN 1 ELSE FMul(a, FPow(a, n - 1))

RECURSIVE FSum(_, _)
FSum(state, k) == IF k = 0 THEN 0 ELSE FAdd(state[k], FSum(state, k - 1))

\* The S-box raises every element to the power 3; in this field the inverse
\* S-box is the power 11, since 3 * 11 = 1 modulo FieldPrime - 1.
apply_sbox(state) == [k \in 1..STATE_WIDTH |-> FPow(state[k], 3)]
apply_inv_sbox(state) == [k \in 1..STATE_WIDTH |-> FPow(state[k], 11)]

\* The linear layer multiplies the state by the matrix I + J (J all ones);
\* its inverse is I - J / 13, and 1 / 13 = 4 in this field.
apply_mds(state) ==
    [k \in 1..STATE_WIDTH |-> FAdd(state[k], FSum(state, STATE_WIDTH))]
apply_inv_mds(state) ==
    [k \in 1..STATE_WIDTH |-> FSub(state[k], FMul(4, FSum(state, STATE_WIDTH)))]

are_equal(a, b) == FSub(a, b)

\* result[index] += flag * value
agg_constraint(result, index, flag, value) ==
    [result EXCEPT ![index + 1] = FAdd(@, FMul(flag, value))]

\* The operations a row of the trace can carry, and the row's flag per
\* operation: 1 for the operation the row carries, 0 for every other one.
UserOps == {"Push", "Add", "Drop"}
hd_op_flags(transition) == [o \in UserOps |-> IF transition.op = o THEN 1 ELSE 0]

\* A transition: the current row (sponge state, operation code), the next row
\* (sponge state, user stack) and the operation that leads from one to the other.
VmTransition(cur_sponge, op_code, next_sponge, user_stack, op) ==
    [current |-> [op_sponge |-> cur_sponge, op_code |-> op_code],
     next    |-> [op_sponge |-> next_sponge, user_stack |-> user_stack],
     op      |-> op]

op_value_any_op(transition) == transition.next.user_stack[1]

\* op_value = stack_top * push_flag
op_value(transition) ==
    FMul(transition.next.user_stack[1], hd_op_flags(transition)["Push"])

\* First half of the round applied to the current row, before the injection.
forward_half_round(transition, ark) ==
    apply_mds(apply_sbox(
        [k \in 1..STATE_WIDTH |-> FAdd(transition.current.op_sponge[k], ark[k])]))

old_sponge_injected_everywhere(transition, ark) ==
    [k \in 1..STATE_WIDTH |->
        FAdd(forward_half_round(transition, ark)[k], transition.current.op_code)]

\* old_sponge as it is compared: op_code injected at position 0, op_value at 1.
old_sponge(transition, ark) ==
    LET fwd == forward_half_round(transition, ark)
    IN [fwd EXCEPT ![1] = FAdd(@, transition.current.op_code),
                   ![2] = FAdd(@, op_value(transition))]

new_sponge_first_constants(transition, ark) ==
    LET s == apply_sbox(apply_inv_mds(transition.next.op_sponge))
    IN [k \in 1..STATE_WIDTH |-> FSub(s[k], ark[k])]

\* Inverse of the second half of the round applied to the next row.
new_sponge(transition, ark) ==
    LET s == apply_sbox(apply_inv_mds(transition.next.op_sponge))
    IN [k \in 1..STATE_WIDTH |-> FSub(s[k], ark[STATE_WIDTH + k])]

RECURSIVE AggAll(_, _, _, _, _)
AggAll(result, old, new, op_flag, n) ==
    IF n = 0 THEN result
    ELSE agg_constraint(AggAll(result, old, new, op_flag, n - 1), n - 1, op_flag,
                        are_equal(old[n], new[n]))

enforce_hacc_unflagged(result, transition, ark, op_flag) ==
    AggAll(result, old_sponge(transition, ark), new_sponge(transition, ark),
           1, STATE_WIDTH)

enforce_hacc(result, transition, ark, op_flag) ==
    AggAll(result, old_sponge(transition, ark), new_sponge(transition, ark),
           op_flag, STATE_WIDTH)

\* The second half of the round: the next row that a sponge state leads to.
SecondHalfRound(state, ark) ==
    apply_mds(apply_inv_sbox(
        [k \in 1..STATE_WIDTH |-> FAdd(state[k], ark[STATE_WIDTH + k])]))

\* Inputs.
SpongeRows == {[k \in 1..STATE_WIDTH |-> (a * k + b) % FieldPrime] :
                 a \in 0..1, b \in 0..1}
RoundConstants == {[k \in 1..(2 * STATE_WIDTH) |-> (c * k + 1) % FieldPrime] :
                     c \in 0..1}
Results == {[k \in 1..STATE_WIDTH |-> r] : r \in {0, 5}}
NextRows == {"round", "round_without_injection", "other"}

AirCall(fn, transition, ark, op_flag, result0, result, old, new) ==
    [fn |-> fn, transition |-> transition, ark |-> ark, op_flag |-> op_flag,
     result0 |-> result0, result |-> result, old |-> old, new |-> new]

InitAir ==
    /\ \E cur \in SpongeRows, ark \in RoundConstants, result \in Results,
          op_flag \in {0, 1}, op_code \in 0..MaxCode, stack_top \in 0..MaxCode,
          op \in UserOps, nxt \in NextRows :
         LET t0 == VmTransition(cur, op_code, cur, <<stack_top>>, op)
             next_sponge ==
                 CASE nxt = "round" -> SecondHalfRound(old_sponge(t0, ark), ark)
                   [] nxt = "round_without_injection" ->
                          SecondHalfRound(forward_half_round(t0, ark), ark)
                   [] OTHER -> cur
         IN air = AirCall("input",
                          VmTransition(cur, op_code, next_sponge, <<stack_top>>, op),
                          ark, op_flag, result, result, <<>>, <<>>)
    /\ hsh = NoCall /\ enc = NoCall /\ assembler = NoCall
    /\ IdleVM /\ IdleAsm /\ IdleBlk

EnforceHacc ==
    /\ air.fn = "input"
    /\ air' = AirCall("enforce_hacc", air.transition, air.ark, air.op_flag,
                      air.result0,
                      enforce_hacc(air.result, air.transition, air.ark, air.op_flag),
                      old_sponge(air.transition, air.ark),
                      new_sponge(air.transition, air.ark))
    /\ UNCHANGED <<vmVars, asmVars, blkVars, hsh, enc, assembler>>

NextAir == EnforceHacc

SpecAir == InitAir /\ [][NextAir]_vars

\* What enforce_hacc added to result at position i (counted from 0).
Contribution(i) == FSub(air.result[i + 1], air.result0[i + 1])

\* C19: when op_flag is 0 each of the 12 contributions added to result is
\* zero, whatever the current and the next sponge rows are; when op_flag is 1
\* contribution i is zero exactly when the forward half-round value
\* (old_sponge) and the backward half-round value (new_sponge) agree at i.
C19_flag_gates_the_constraints ==
    air.fn = "enforce_hacc" =>
        /\ Len(air.result) = 12
        /\ air.op_flag = 0 => \A i \in 0..11 : Contribution(i) = 0
        /\ air.op_flag = 1 =>
             \A i \in 0..11 : Contribution(i) = 0 <=> air.old[i + 1] = air.new[i + 1]

C19_witness ==
    /\ air.fn = "enforce_hacc" /\ air.op_flag = 1
    /\ \E i, j \in 0..11 : Contribution(i) = 0 /\ Contribution(j) # 0

\* C20: the forward half-round state is offset before the comparison at
\* position 0 by the current row's operation code and at position 1 by the
\* operand value, which is the top of the next row's user stack when the
\* operation is a push and 0 for every other operation; positions 2..11
\* are the forward half-round values themselves.
C20_injection_at_positions_0_and_1 ==
    air.fn = "enforce_hacc" =>
        LET t == air.transition
            cur == t.current.op_sponge
            fwd == apply_mds(apply_sbox([k \in 1..12 |-> FAdd(cur[k], air.ark[k])]))
            operand == IF t.op = "Push" THEN t.next.user_stack[1] ELSE 0
        IN /\ air.old[1] = FAdd(fwd[1], t.current.op_code)
           /\ air.old[2] = FAdd(fwd[2], operand)
           /\ \A k \in 3..12 : air.old[k] = fwd[k]

C20_witness ==
    /\ air.fn = "enforce_hacc"
    /\ air.transition.op = "Push" /\ air.transition.next.user_stack[1] # 0
    /\ air.transition.current.op_code # 0
    /\ air.old # forward_half_round(air.transition, air.ark)

\* The next row is the full round of the current row, nothing injected.
FullRoundNoInjection ==
    /\ air.transition.current.op_code = 0
    /\ op_value(air.transition) = 0
    /\ air.transition.next.op_sponge =
         SecondHalfRound(forward_half_round(air.transition, air.ark), air.ark)

None == [some |-> FALSE]
Some(v) == [some |-> TRUE, value |-> v]

\* Operation::OP_BITS
OP_BITS == 7

\* A faulty variant: every kind of operation has an opcode of its own.
op_code_per_kind(op) == Some(op.k)

\* The variants of Operation that carry no value.
PlainOperations == {
    "Noop", "Assert", "FmpAdd", "FmpUpdate", "Join", "Split", "Loop", "Span",
    "End", "Repeat", "Respan", "Add", "Neg", "Mul", "Inv", "Incr", "And",
    "Or", "Not", "Eq", "Eqz", "Eqw", "U32split", "U32add", "U32addc",
    "U32sub", "U32mul", "U32madd", "U32div", "U32and", "U32or", "U32xor",
    "Pad", "Drop", "Dup0", "Dup1", "Dup2", "Dup3", "Dup4", "Dup5", "Dup6",
    "Dup7", "Dup9", "Dup11", "Dup13", "Dup15", "Swap", "SwapW", "SwapW2",
    "SwapW3", "MovUp2", "MovUp3", "MovUp4", "MovUp5", "MovUp6", "MovUp7",
    "MovUp9", "MovUp11", "MovUp13", "MovUp15", "MovDn2", "MovDn3", "MovDn4",
    "MovDn5", "MovDn6", "MovDn7", "MovDn9", "MovDn11", "MovDn13", "MovDn15",
    "CSwap", "CSwapW", "Read", "ReadW", "LoadW", "StoreW", "SDepth",
    "RpPerm", "MpVerify", "ProcEnd"}

\* Every operation: the plain variants, Push with its immediate value,
\* MrUpdate with its flag, Debug with its options, Advice with its injector,
\* ProcStart with its procedure information.
Operations ==
    {Op(k, 0) : k \in PlainOperations}
        \cup {Push(v) : v \in 0..MaxCode}
        \cup {MrUpdate(copy) : copy \in BOOLEAN}
        \cup {Op(k, n) : k \in {"Debug", "Advice", "ProcStart"}, n \in 0..1}

op_code(op) ==
    CASE op.k = "Noop" -> Some(0)
      [] op.k = "Assert" -> Some(1)
      [] op.k = "FmpAdd" -> Some(61)
      [] op.k = "FmpUpdate" -> Some(61)
      [] op.k = "Push" -> Some(2)
      [] op.k = "Eq" -> Some(3)
      [] op.k = "Eqz" -> Some(4)
      [] op.k = "Eqw" -> Some(4)
      [] op.k = "Add" -> Some(5)
      [] op.k = "Neg" -> Some(6)
      [] op.k = "Mul" -> Some(7)
      [] op.k = "Inv" -> Some(8)
      [] op.k = "Incr" -> Some(9)
      [] op.k = "And" -> Some(10)
      [] op.k = "Or" -> Some(11)
      [] op.k = "Not" -> Some(12)
      [] op.k = "Pad" -> Some(13)
      [] op.k = "Drop" -> Some(14)
      [] op.k = "Dup0" -> Some(16)
      [] op.k = "Dup1" -> Some(17)
      [] op.k = "Dup2" -> Some(18)
      [] op.k = "Dup3" -> Some(19)
      [] op.k = "Dup4" -> Some(20)
      [] op.k = "Dup5" -> Some(21)
      [] op.k = "Dup6" -> Some(22)
      [] op.k = "Dup7" -> Some(23)
      [] op.k = "Dup9" -> Some(24)
      [] op.k = "Dup11" -> Some(25)
      [] op.k = "Dup13" -> Some(27)
      [] op.k = "Dup15" -> Some(28)
      [] op.k = "Swap" -> Some(32)
      [] op.k = "SwapW" -> Some(33)
      [] op.k = "SwapW2" -> Some(34)
      [] op.k = "SwapW3" -> Some(35)
      [] op.k = "MovUp2" -> Some(33)
      [] op.k = "MovUp3" -> Some(34)
      [] op.k = "MovUp4" -> Some(35)
      [] op.k = "MovUp5" -> Some(36)
      [] op.k = "MovUp6" -> Some(37)
      [] op.k = "MovUp7" -> Some(38)
      [] op.k = "MovUp9" -> Some(39)
      [] op.k = "MovUp11" -> Some(40)
      [] op.k = "MovUp13" -> Some(41)
      [] op.k = "MovUp15" -> Some(43)
      [] op.k = "MovDn2" -> Some(38)
      [] op.k = "MovDn3" -> Some(39)
      [] op.k = "MovDn4" -> Some(40)
      [] op.k = "MovDn5" -> Some(41)
      [] op.k = "MovDn6" -> Some(42)
      [] op.k = "MovDn7" -> Some(42)
      [] op.k = "MovDn9" -> Some(42)
      [] op.k = "MovDn11" -> Some(42)
      [] op.k = "MovDn13" -> Some(42)
      [] op.k = "MovDn15" -> Some(42)
      [] op.k = "CSwap" -> Some(42)
      [] op.k = "CSwapW" -> Some(42)
      [] op.k = "U32split" -> Some(48)
      [] op.k = "U32add" -> Some(49)
      [] op.k = "U32addc" -> Some(50)
      [] op.k = "U32sub" -> Some(51)
      [] op.k = "U32mul" -> Some(52)
      [] op.k = "U32madd" -> Some(53)
      [] op.k = "U32div" -> Some(54)
      [] op.k = "U32and" -> Some(55)
      [] op.k = "U32or" -> Some(56)
      [] op.k = "U32xor" -> Some(57)
      [] op.k = "LoadW" -> Some(58)
      [] op.k = "StoreW" -> Some(59)
      [] op.k = "Read" -> Some(60)
      [] op.k = "ReadW" -> Some(61)
      [] op.k = "SDepth" -> Some(61)
      [] op.k = "RpPerm" -> Some(63)
      [] op.k = "MpVerify" -> Some(62)
      [] op.k = "MrUpdate" -> Some(62)
      [] op.k = "End" -> Some(112)
      [] op.k = "Join" -> Some(113)
      [] op.k = "Split" -> Some(114)
      [] op.k = "Loop" -> Some(115)
      [] op.k = "Repeat" -> Some(116)
      [] op.k = "Respan" -> Some(120)
      [] op.k = "Span" -> Some(127)
      [] op.k = "Debug" -> None
      [] op.k = "Advice" -> None
      [] op.k = "ProcStart" -> Some(240)
      [] op.k = "ProcEnd" -> Some(241)

is_decorator(op) == op.k \in {"Debug", "Advice"}

\* The operations whose documentation says that they have no effect on the
\* VM state (Advice: on anything but the advice tape) and do not advance the
\* VM clock.
DocumentedAsAnnotation == {"Debug", "Advice", "ProcStart", "ProcEnd"}

EncCall(fn, op, out) == [fn |-> fn, op |-> op, out |-> out]

InitEnc ==
    /\ \E op \in Operations : enc = EncCall("operation", op, None)
    /\ hsh = NoCall /\ air = NoCall /\ assembler = NoCall
    /\ IdleVM /\ IdleAsm /\ IdleBlk

OpCode ==
    /\ enc.fn = "operation"
    /\ enc' = EncCall("op_code", enc.op, op_code(enc.op))
    /\ UNCHANGED <<vmVars, asmVars, blkVars, hsh, air, assembler>>

IsDecorator ==
    /\ enc.fn = "operation"
    /\ enc' = EncCall("is_decorator", enc.op, is_decorator(enc.op))
    /\ UNCHANGED <<vmVars, asmVars, blkVars, hsh, air, assembler>>

NextEnc == OpCode \/ IsDecorator

SpecEnc == InitEnc /\ [][NextEnc]_vars

\* C22: every operation documented as having no effect on the VM state and
\* not advancing the clock (Debug, Advice, ProcStart, ProcEnd) has no opcode
\* and is a decorator: is_decorator returns true and op_code returns None for
\* it; for every other operation is_decorator returns false and op_code
\* returns Some value.
C22_as_stated ==
    /\ enc.fn = "is_decorator" => (enc.out <=> enc.op.k \in DocumentedAsAnnotation)
    /\ enc.fn = "op_code" => (enc.out = None <=> enc.op.k \in DocumentedAsAnnotation)

\* The operations named as sharing one opcode.
SharedWithCSwap == {"MovDn6", "MovDn7", "MovDn9", "MovDn11", "MovDn13", "MovDn15",
                    "CSwap", "CSwapW"}
SharedWithMrUpdate == {"MpVerify", "MrUpdate"}

\* C35: op_code is not injective: MovDn6, MovDn7, MovDn9, MovDn11, MovDn13,
\* MovDn15, CSwap and CSwapW all get the opcode of CSwapW, and MpVerify gets
\* the opcode of MrUpdate; for each of them another kind of operation has
\* the very opcode returned, so the operation is not determined by it.
C35_op_code_is_not_injective ==
    enc.fn = "op_code" =>
        /\ enc.op.k \in SharedWithCSwap =>
             enc.out # None /\ enc.out = op_code(Op("CSwapW", 0))
        /\ enc.op.k \in SharedWithMrUpdate =>
             enc.out # None /\ enc.out = op_code(Op("MrUpdate", 0))
        /\ enc.op.k \in SharedWithCSwap \cup SharedWithMrUpdate =>
             \E other \in Operations : other.k # enc.op.k /\ op_code(other) = enc.out

C35_witness ==
    /\ enc.fn = "op_code" /\ enc.op.k = "MovDn9"
    /\ enc.out = op_code(Op("CSwap", 0)) /\ enc.out # None

\* C40: every opcode returned by op_code fits in OP_BITS bits.
C40_as_stated ==
    (enc.fn = "op_code" /\ enc.out # None) => enc.out.value < 2^OP_BITS

\* ---------------------------------------------------------------------------
\* Field operations of the processor (processor/src/operations/field_ops.rs),
\* executed by a process that starts with a stack of MIN_STACK_DEPTH zeros.
\* ---------------------------------------------------------------------------

Add    == Op("Add", 0)
Neg    == Op("Neg", 0)
Mul    == Op("Mul", 0)
Incr   == Op("Incr", 0)
And    == Op("And", 0)
Or     == Op("Or", 0)
Eq     == Op("Eq", 0)
Eqz    == Op("Eqz", 0)
BinAcc == Op("BinAcc", 0)

\* stack.set(0, r); stack.shift_left(2): the two top elements are replaced by r.
SetShiftLeft(s, r) == <<r>> \o Tail(ShiftLeft(s, 0))

\* stack.set(0, r); stack.copy_state(1): the top element is replaced by r.
SetCopyState(s, r) == [s EXCEPT ![1] = r]

\* assert_binary
IsBinary(a) == a \in {0, 1}

\* u64::is_power_of_two
is_power_of_two(n) == \E k \in 0..n : Pow2(k) = n

op_add(s) == SetShiftLeft(s, FAdd(s[2], s[1]))
op_neg(s) == SetCopyState(s, FSub(0, s[1]))
op_mul(s) == SetShiftLeft(s, FMul(s[2], s[1]))
op_incr(s) == SetCopyState(s, FAdd(s[1], 1))

op_and_of_top_only(s) == SetShiftLeft(s, s[1])

op_and(s) ==
    LET b == s[1]  a == s[2]
    IN SetShiftLeft(s, IF a = 1 /\ b = 1 THEN 1 ELSE 0)

op_or(s) ==
    LET b == s[1]  a == s[2]
    IN SetShiftLeft(s, IF a = 1 \/ b = 1 THEN 1 ELSE 0)

op_not(s) == SetCopyState(s, FSub(1, s[1]))

op_eq(s) ==
    LET b == s[1]  a == s[2]
    IN SetShiftLeft(s, IF a = b THEN 1 ELSE 0)

op_eqz(s) == SetCopyState(s, IF s[1] = 0 THEN 1 ELSE 0)

op_binacc_always_accumulating(s) ==
    [s EXCEPT ![1] = FMul(s[1], s[1]), ![2] = FMul(s[2], s[1]), ![3] = s[3] \div 2]

op_binacc(s) ==
    LET exp == s[1]  acc == s[2]  b == s[3]
        bit == b % 2
    IN [s EXCEPT ![1] = FMul(exp, exp),
                 ![2] = FMul(acc, ((exp - 1) * bit + 1) % FieldPrime),
                 ![3] = b \div 2]

\* The ghost tags after an operation that replaces two elements by one.
TagsShiftLeft == <<"x">> \o Tail(ShiftLeft(tags, "x"))

ExecAddChecked ==
    /\ Running("Add")
    /\ IF Len(stack) < MIN_STACK_DEPTH + 2 THEN Fail("StackUnderflow")
       ELSE StepTo(op_add(stack), TagsShiftLeft)

ExecAdd == Running("Add") /\ StepTo(op_add(stack), TagsShiftLeft)

ExecNeg == Running("Neg") /\ StepTo(op_neg(stack), tags)

ExecMul == Running("Mul") /\ StepTo(op_mul(stack), TagsShiftLeft)

ExecIncr == Running("Incr") /\ StepTo(op_incr(stack), tags)

ExecAnd ==
    /\ Running("And")
    /\ IF ~IsBinary(stack[1]) \/ ~IsBinary(stack[2]) THEN Fail("NotBinaryValue")
       ELSE StepTo(op_and(stack), TagsShiftLeft)

ExecOr ==
    /\ Running("Or")
    /\ IF ~IsBinary(stack[1]) \/ ~IsBinary(stack[2]) THEN Fail("NotBinaryValue")
       ELSE StepTo(op_or(stack), TagsShiftLeft)

ExecEq == Running("Eq") /\ StepTo(op_eq(stack), TagsShiftLeft)

ExecEqz == Running("Eqz") /\ StepTo(op_eqz(stack), tags)

\* A faulty variant: the squared exponent is written before acc is checked.
ExecBinAccWritingFirst ==
    /\ Running("BinAcc")
    /\ IF ~is_power_of_two(stack[1]) \/ ~is_power_of_two(stack[2])
       THEN /\ status' = "failed" /\ err' = "InvalidPowerOfTwo"
            /\ stack' = [stack EXCEPT ![1] = FMul(stack[1], stack[1])]
            /\ UNCHANGED <<tags, advice_tape, advice_sets, pc, prim>>
            /\ VMFrame
       ELSE StepTo(op_binacc(stack), tags)

ExecBinAcc ==
    /\ Running("BinAcc")
    /\ IF ~is_power_of_two(stack[1]) \/ ~is_power_of_two(stack[2])
       THEN Fail("InvalidPowerOfTwo")
       ELSE StepTo(op_binacc(stack), tags)

FieldOps == {Add, Neg, Mul, Inv, Incr, And, Or, Not, Eq, Eqz, Eqw, BinAcc}

\* init_stack_with: the values are pushed one after the other.
Pushes(values) == [j \in 1..Len(values) |-> Push(values[j])]

FieldVals == 0..MaxCode
PushedVals == {<<>>} \cup {<<a>> : a \in FieldVals}
                \cup {<<a, b>> : a, b \in FieldVals}
                \cup {<<a, b, c>> : a, b, c \in FieldVals}
EqwWords == {<<0, 0, 0, 1>>, <<1, 0, 0, 0>>, <<0, 1, 0, 1>>}

InitField ==
    /\ \/ \E vals \in PushedVals, op1 \in FieldOps, more \in {<<>>} \cup {<<o>> : o \in FieldOps} :
            ops = Pushes(vals) \o <<op1>> \o more
       \/ \E A \in EqwWords, B \in EqwWords, deeper \in {<<>>, <<Push(7)>>} :
            ops = deeper \o Pushes(A) \o Pushes(B) \o <<Eqw>>
       \/ \E exp \in 0..(FieldPrime - 1), acc \in 0..(FieldPrime - 1), b \in 0..(MaxCode + 1),
             more \in {<<>>, <<BinAcc>>} :
            ops = <<Push(7), Push(b), Push(acc), Push(exp), BinAcc>> \o more
    /\ stack = Zeros(MIN_STACK_DEPTH)
    /\ tags = [j \in 1..MIN_STACK_DEPTH |-> "x"]
    /\ status = "running" /\ err = "" /\ pc = 1
    /\ inp = NoInput /\ prim = NoPrim
    /\ advice_tape = <<>> /\ advice_sets = {}
    /\ cont = <<>> /\ ran = <<>> /\ splits = <<>>
    /\ IdleAsm /\ IdleBlk /\ IdlePure

NextField ==
    \/ ExecPush \/ ExecAdd \/ ExecNeg \/ ExecMul \/ ExecInv \/ ExecIncr
    \/ ExecAnd \/ ExecOr \/ ExecNot \/ ExecEq \/ ExecEqz \/ ExecEqw \/ ExecBinAcc
    \/ Halt

SpecField == InitField /\ [][NextField]_vars

\* The operation about to be executed is of kind k.
About(k) == status = "running" /\ pc <= Len(ops) /\ Cur.k = k

\* The operation executed last, if any.
Last == IF pc > 1 /\ pc - 1 <= Len(ops) THEN ops[pc - 1].k ELSE "none"

\* The elements below the n top ones stay in order, above zeros at the floor.
DeeperKept(n) ==
    LET deeper == SubSeq(stack, n + 1, Len(stack))
    IN /\ Len(stack') >= Len(deeper) + 1
       /\ SubSeq(stack', 2, Len(deeper) + 1) = deeper
       /\ \A j \in (Len(deeper) + 2)..Len(stack') : stack'[j] = 0

\* C23: And, Or and Not compute the boolean function of their operands when
\* every consumed operand is 0 or 1 (And: 1 iff both are 1; Or: 1 iff at
\* least one is 1; Not: 1 - a), replace the operands by the single result
\* with the deeper elements kept in order, and return an error, changing
\* nothing, when a consumed operand is neither 0 nor 1.
C23_boolean_operations ==
    [][(About("And") \/ About("Or") \/ About("Not")) =>
        LET b == stack[1]
            a == stack[2]
            n == IF Cur.k = "Not" THEN 1 ELSE 2
            binary == \A j \in 1..n : stack[j] \in {0, 1}
            result == CASE Cur.k = "And" -> IF a = 1 /\ b = 1 THEN 1 ELSE 0
                        [] Cur.k = "Or" -> IF a = 1 \/ b = 1 THEN 1 ELSE 0
                        [] OTHER -> 1 - b
        IN IF binary
           THEN /\ status' = "running" /\ err' = ""
                /\ stack'[1] = result
                /\ DeeperKept(n)
           ELSE /\ status' = "failed" /\ err' = "NotBinaryValue"
                /\ stack' = stack]_vars

C23_witness ==
    /\ status = "running" /\ Last = "And" /\ Len(ops) = 4
    /\ stack[1] = 1 /\ stack[2] = 2 /\ Len(stack) = MIN_STACK_DEPTH + 2

\* The number of stack elements each field operation reads.
Consumes ==
    [k \in {o.k : o \in FieldOps} |->
        CASE k \in {"Add", "Mul", "And", "Or", "Eq"} -> 2
          [] k \in {"Neg", "Inv", "Incr", "Not", "Eqz"} -> 1
          [] k = "Eqw" -> 8
          [] k = "BinAcc" -> 3]

\* The operation about to be executed consumes more elements than were
\* supplied on top of the MIN_STACK_DEPTH initial ones.
FewerThanConsumed ==
    /\ status = "running" /\ pc <= Len(ops) /\ Cur.k \in DOMAIN Consumes
    /\ Len(stack) - MIN_STACK_DEPTH < Consumes[Cur.k]

\* C24 as stated: an operation executed when the stack holds fewer
\* user-supplied elements than it consumes fails.
C24_as_stated == [][FewerThanConsumed => status' = "failed"]_vars

\* C24: an operation executed when the stack holds fewer user-supplied
\* elements than it consumes does not fail for that reason. The stack never
\* holds fewer than MIN_STACK_DEPTH elements; the operation reads its
\* operands from them and succeeds, unless the values read make it fail (a
\* non-binary operand, the inverse of 0, not a power of two). Add sums the
\* two top elements and leaves the stack at MIN_STACK_DEPTH.
C24_absent_operands_are_read_from_the_floor ==
    [][FewerThanConsumed =>
        /\ Len(stack) >= Consumes[Cur.k]
        /\ Cur.k \in {"Add", "Neg", "Mul", "Incr", "Eq", "Eqz", "Eqw"} =>
             status' = "running" /\ err' = ""
        /\ status' = "failed" =>
             \/ err' = "NotBinaryValue" /\ \E j \in 1..Consumes[Cur.k] : stack[j] \notin {0, 1}
             \/ err' = "DivideByZero" /\ stack[1] = 0
             \/ err' = "InvalidPowerOfTwo"
                  /\ (~is_power_of_two(stack[1]) \/ ~is_power_of_two(stack[2]))
        /\ Cur.k = "Add" =>
             /\ stack'[1] = (stack[1] + stack[2]) % FieldPrime
             /\ Len(stack') = MIN_STACK_DEPTH]_vars

C24_witness ==
    /\ status = "running" /\ Last = "Add" /\ pc = 2
    /\ stack = Zeros(MIN_STACK_DEPTH)

\* The program starts with three pushes and has executed its fourth operation.
AfterThreePushes ==
    /\ Len(ops) >= 4 /\ pc = 5
    /\ \A j \in 1..3 : ops[j].k = "Push"

\* C25: Add, Mul, And, Or and Eq executed on a freshly initialised process,
\* whose stack is at minimum depth, return Ok; the stack depth is never below
\* MIN_STACK_DEPTH; after three pushes a two-operand operation leaves depth
\* MIN_STACK_DEPTH + 2 and a one-operand operation MIN_STACK_DEPTH + 3.
C25_operations_at_minimum_depth ==
    /\ Len(stack) >= MIN_STACK_DEPTH
    /\ (pc = 1 /\ ops[1].k \in {"Add", "Mul", "And", "Or", "Eq"}) => status # "failed"
    /\ (AfterThreePushes /\ ops[4].k \in {"Add", "Mul", "And", "Or", "Eq"}) =>
           Len(stack) = MIN_STACK_DEPTH + 2
    /\ (AfterThreePushes /\ ops[4].k \in {"Neg", "Inv", "Incr", "Not", "Eqz"}) =>
           Len(stack) = MIN_STACK_DEPTH + 3

C25_witness ==
    /\ AfterThreePushes /\ ops[4].k = "Mul" /\ status = "running"
    /\ Len(stack) = MIN_STACK_DEPTH + 2 /\ stack[1] = 4

\* C26: Eqw pushes 1 if the word at positions 0..3 equals the word at
\* positions 4..7 element by element at matching offsets, and 0 otherwise; it
\* consumes nothing: both words lie directly below the pushed flag in their
\* original order and the depth grows by exactly 1.
C26_eqw_pushes_flag_and_keeps_words ==
    [][About("Eqw") =>
        LET flag == IF \A j \in 1..4 : stack[j] = stack[j + 4] THEN 1 ELSE 0
        IN /\ status' = "running" /\ err' = ""
           /\ stack' = <<flag>> \o stack
           /\ Len(stack') = Len(stack) + 1]_vars

C26_witness ==
    /\ status = "running" /\ Last = "Eqw" /\ stack[1] = 1
    /\ SubSeq(stack, 2, 5) = <<0, 0, 0, 1>>
    /\ SubSeq(stack, 6, 9) = <<0, 0, 0, 1>>
    /\ stack[10] = 7

\* The powers of two among the field elements.
PowersOfTwo == {x \in 1..(FieldPrime - 1) : \E k \in 0..FieldPrime : x = 2^k}

\* C27: BinAcc on a stack whose top three elements are [exp, acc, b], exp
\* and acc powers of two, replaces them by [exp * exp, acc * exp if b is odd
\* else acc, b >> 1] (field multiplication) and leaves the deeper elements
\* and the depth unchanged; if exp or acc is not a power of two (0 included)
\* it returns an InvalidPowerOfTwo error.
C27_binacc_turn ==
    [][About("BinAcc") =>
        LET exp == stack[1]
            acc == stack[2]
            b == stack[3]
        IN IF exp \in PowersOfTwo /\ acc \in PowersOfTwo
           THEN /\ status' = "running" /\ err' = ""
                /\ stack'[1] = (exp * exp) % FieldPrime
                /\ stack'[2] = IF b % 2 = 1 THEN (acc * exp) % FieldPrime ELSE acc
                /\ stack'[3] = b \div 2
                /\ Len(stack') = Len(stack)
                /\ \A j \in 4..Len(stack) : stack'[j] = stack[j]
           ELSE /\ status' = "failed" /\ err' = "InvalidPowerOfTwo"
                /\ stack' = stack]_vars

C27_witness ==
    /\ status = "running" /\ Last = "BinAcc" /\ pc = 6
    /\ stack[1] = 13 /\ stack[2] = 16 /\ stack[3] = 1 /\ stack[4] = 7
    /\ Len(stack) = MIN_STACK_DEPTH + 4

\* The operation returns the error e and the stack is what it was.
FailsKeepingStack(e) == status' = "failed" /\ err' = e /\ stack' = stack

\* C36: a field operation that returns an error leaves the stack contents
\* and depth as they were: Inv on 0 returns DivideByZero; And, Or and Not on
\* a non-binary operand and BinAcc on an exp or acc that is not a power of
\* two return their error, each before anything is written to the stack.
C36_failed_operation_keeps_the_stack ==
    [][/\ (About("Inv") /\ stack[1] = 0) => FailsKeepingStack("DivideByZero")
       /\ ((About("And") \/ About("Or")) /\ ~(IsBinary(stack[1]) /\ IsBinary(stack[2]))) =>
             FailsKeepingStack("NotBinaryValue")
       /\ (About("Not") /\ ~IsBinary(stack[1])) => FailsKeepingStack("NotBinaryValue")
       /\ (About("BinAcc") /\ ~(is_power_of_two(stack[1]) /\ is_power_of_two(stack[2]))) =>
             FailsKeepingStack("InvalidPowerOfTwo")
       /\ (status = "running" /\ status' = "failed") =>
             stack' = stack /\ Len(stack') = Len(stack)]_vars

C36_witness ==
    /\ status = "failed" /\ err = "InvalidPowerOfTwo" /\ pc <= Len(ops) /\ Cur.k = "BinAcc"
    /\ stack[1] = 4 /\ stack[2] = 3 /\ stack[4] = 7 /\ Len(stack) = MIN_STACK_DEPTH + 4

\* ---------------------------------------------------------------------------
\* Memory instructions of the assembler
\* (assembly/src/parsers/io_ops/mem_ops.rs).  A token is the sequence of the
\* parts of an instruction: "pushw.mem.2" is <<"pushw", "mem", "2">>.
\* ---------------------------------------------------------------------------

MLoad   == Op("MLoad", 0)
MStore  == Op("MStore", 0)
MLoadW  == Op("MLoadW", 0)
MStoreW == Op("MStoreW", 0)
MovUp4  == Op("MovUp", 4)

\* The decimal numerals that are read as addresses.
Numerals == <<"0", "1", "2", "3">>

\* parse_element_param(op, 2): the value of the numeral at part 2 (counted
\* from 0), or an error when the part is not a numeral.
parse_element_param(op) ==
    IF \E v \in 1..Len(Numerals) : Numerals[v] = op[3]
    THEN [res |-> "Ok", value |-> (CHOOSE v \in 1..Len(Numerals) : Numerals[v] = op[3]) - 1]
    ELSE [res |-> "invalid_param", value |-> 0]

\* validate_operation!(op, "<instr>.mem", 0..1)
validate_operation(op, instr) ==
    IF Len(op) < 2 \/ op[1] # instr \/ op[2] # "mem" THEN "unexpected_token"
    ELSE validate_op_len(op, 2, 0, 1)

\* validate_operation!(@only_params op, ..., 0..1)
validate_operation_only_params(op) == validate_op_len(op, 2, 0, 1)

push_mem_addr_always_push(ops0, op) ==
    LET address == parse_element_param(op) IN
    IF address.res # "Ok" THEN [res |-> address.res, span |-> ops0]
    ELSE [res |-> "Ok", span |-> ops0 \o <<Push(address.value)>>]

push_mem_addr(ops0, op) ==
    LET address == parse_element_param(op) IN
    IF address.res # "Ok" THEN [res |-> address.res, span |-> ops0]
    ELSE IF address.value = 0 THEN [res |-> "Ok", span |-> ops0 \o <<Pad>>]
    ELSE [res |-> "Ok", span |-> ops0 \o <<Push(address.value)>>]

\* The span with op appended, unless the call before it returned an error.
ThenPush(r, operations) ==
    IF r.res # "Ok" THEN r ELSE [res |-> "Ok", span |-> r.span \o operations]

parse_push_mem(ops0, op) ==
    LET v == validate_operation(op, "push") IN
    IF v # "Ok" THEN [res |-> v, span |-> ops0]
    ELSE ThenPush(IF Len(op) = 3 THEN push_mem_addr(ops0, op)
                  ELSE [res |-> "Ok", span |-> ops0],
                  <<MLoad>>)

parse_pop_mem(ops0, op) ==
    LET v == validate_operation(op, "pop") IN
    IF v # "Ok" THEN [res |-> v, span |-> ops0]
    ELSE ThenPush(IF Len(op) = 3 THEN push_mem_addr(ops0, op)
                  ELSE [res |-> "Ok", span |-> ops0],
                  <<MStore, Drop>>)

\* A faulty variant: the immediate address is parsed before the space for the
\* word is made.
parse_read_mem_address_first(ops0, op, overwrite_stack_top) ==
    LET v == validate_operation_only_params(op) IN
    IF v # "Ok" THEN [res |-> v, span |-> ops0]
    ELSE IF Len(op) = 3 /\ parse_element_param(op).res # "Ok"
         THEN [res |-> parse_element_param(op).res, span |-> ops0]
    ELSE IF ~overwrite_stack_top
         THEN LET padded == ops0 \o Repeat(Pad, 4) IN
              ThenPush(IF Len(op) = 2 THEN [res |-> "Ok", span |-> padded \o <<MovUp4>>]
                       ELSE push_mem_addr(padded, op),
                       <<MLoadW>>)
         ELSE ThenPush(IF Len(op) = 3 THEN push_mem_addr(ops0, op)
                       ELSE [res |-> "Ok", span |-> ops0],
                       <<MLoadW>>)

parse_read_mem(ops0, op, overwrite_stack_top) ==
    LET v == validate_operation_only_params(op) IN
    IF v # "Ok" THEN [res |-> v, span |-> ops0]
    ELSE IF ~overwrite_stack_top
         THEN LET padded == ops0 \o Repeat(Pad, 4) IN
              ThenPush(IF Len(op) = 2 THEN [res |-> "Ok", span |-> padded \o <<MovUp4>>]
                       ELSE push_mem_addr(padded, op),
                       <<MLoadW>>)
         ELSE ThenPush(IF Len(op) = 3 THEN push_mem_addr(ops0, op)
                       ELSE [res |-> "Ok", span |-> ops0],
                       <<MLoadW>>)

parse_write_mem(ops0, op, retain_stack_top) ==
    LET v == validate_operation_only_params(op) IN
    IF v # "Ok" THEN [res |-> v, span |-> ops0]
    ELSE ThenPush(IF Len(op) = 3 THEN push_mem_addr(ops0, op)
                  ELSE [res |-> "Ok", span |-> ops0],
                  <<MStoreW>> \o (IF retain_stack_top THEN <<>> ELSE Repeat(Drop, 4)))

\* The tokens of one memory instruction: the address on the stack, an
\* immediate address, a part that is no address, one parameter too many.
MemTokens(instr) ==
    {<<instr, "mem">>, <<instr, "mem", "x">>, <<instr, "mem", "1", "2">>}
        \cup {<<instr, "mem", Numerals[v]>> : v \in 1..(MaxMem + 1)}

\* One call of a parser; an error ends the compilation.
Parsed(fn, op, r) ==
    /\ span_ops' = r.span
    /\ parse_result' = r.res
    /\ tok' = [fn |-> fn, op |-> op]
    /\ ntok' = ntok + 1
    /\ UNCHANGED <<vmVars, blkVars, pureVars>>

CanParse(max) == ntok < max /\ parse_result \in {"", "Ok"}

ParsePushMem ==
    /\ CanParse(MaxMem)
    /\ \E op \in MemTokens("push") \cup {<<"pop", "mem">>} :
         Parsed("parse_push_mem", op, parse_push_mem(span_ops, op))

ParsePopMem ==
    /\ CanParse(MaxMem)
    /\ \E op \in MemTokens("pop") : Parsed("parse_pop_mem", op, parse_pop_mem(span_ops, op))

\* parse_pushw and parse_loadw
ParseReadMem ==
    /\ CanParse(MaxMem)
    /\ \E op \in MemTokens("pushw") \cup MemTokens("loadw") :
         Parsed("parse_read_mem", op, parse_read_mem(span_ops, op, op[1] = "loadw"))

\* parse_popw and parse_storew
ParseWriteMem ==
    /\ CanParse(MaxMem)
    /\ \E op \in MemTokens("popw") \cup MemTokens("storew") :
         Parsed("parse_write_mem", op, parse_write_mem(span_ops, op, op[1] = "storew"))

NextMem == ParsePushMem \/ ParsePopMem \/ ParseReadMem \/ ParseWriteMem

SpecMem == InitAsm /\ [][NextMem]_vars

\* The documented number of VM cycles of a memory instruction.
Cycles(instr, immediate) ==
    CASE instr = "push" -> IF immediate THEN 2 ELSE 1
      [] instr = "pop" -> IF immediate THEN 3 ELSE 2
      [] instr = "pushw" -> 6
      [] instr = "loadw" -> IF immediate THEN 2 ELSE 1
      [] instr = "popw" -> IF immediate THEN 6 ELSE 5
      [] instr = "storew" -> IF immediate THEN 2 ELSE 1

\* The memory operation an instruction is translated to.
MemOperation(instr) ==
    CASE instr = "push" -> MLoad
      [] instr = "pop" -> MStore
      [] instr \in {"pushw", "loadw"} -> MLoadW
      [] instr \in {"popw", "storew"} -> MStoreW

\* C28: for every memory instruction the number of operations appended to
\* the span is its documented cycle count (address on the stack / immediate:
\* push.mem 1 / 2, pop.mem 2 / 3, pushw.mem 6 / 6, loadw.mem 1 / 2,
\* popw.mem 5 / 6, storew.mem 1 / 2), and an immediate address is emitted
\* directly before the memory operation, as Pad when it is 0 and as
\* Push(address) otherwise.
C28_memory_instruction_cycles ==
    [][parse_result' = "Ok" =>
        LET instr == tok'.op[1]
            immediate == Len(tok'.op) = 3
            added == SubSeq(span_ops', Len(span_ops) + 1, Len(span_ops'))
            at == CHOOSE j \in 1..(Len(added) + 1) :
                     j = Len(added) + 1 \/ added[j] = MemOperation(instr)
        IN /\ SubSeq(span_ops', 1, Len(span_ops)) = span_ops
           /\ Len(added) = Cycles(instr, immediate)
           /\ at <= Len(added)
           /\ \A j \in 1..Len(added) : added[j] = MemOperation(instr) => j = at
           /\ immediate =>
                /\ at > 1
                /\ tok'.op[3] = "0" => added[at - 1] = Pad
                /\ tok'.op[3] # "0" =>
                     /\ added[at - 1].k = "Push" /\ added[at - 1].n # 0
                     /\ Numerals[added[at - 1].n + 1] = tok'.op[3]]_vars

C28_witness ==
    /\ parse_result = "Ok" /\ ntok = 2 /\ tok.op = <<"popw", "mem", "2">>
    /\ Len(span_ops) = 12
    /\ SubSeq(span_ops, 7, 12) = <<Push(2), MStoreW, Drop, Drop, Drop, Drop>>

\* A memory-instruction parser has just returned an error.
MemParserFailed == parse_result' \notin {"", "Ok"}

\* C37 as stated: whenever a memory-instruction parser returns an error,
\* span_ops is exactly what it was on entry.
C37_as_stated == [][MemParserFailed => span_ops' = span_ops]_vars

\* C37 (amended): when a memory-instruction parser returns an error for an
\* extra parameter, or for an invalid parameter of push.mem, pop.mem,
\* loadw.mem, popw.mem or storew.mem, span_ops is what it was on entry;
\* parse_read_mem given pushw.mem with an unparsable immediate address
\* returns invalid_param after appending four Pad operations to span_ops.
C37_only_pushw_leaves_operations_behind ==
    [][MemParserFailed =>
        IF tok'.op[1] = "pushw" /\ parse_result' = "invalid_param"
        THEN tok'.fn = "parse_read_mem" /\ span_ops' = span_ops \o Repeat(Pad, 4)
        ELSE span_ops' = span_ops]_vars

C37_witness ==
    /\ parse_result = "invalid_param" /\ tok.fn = "parse_read_mem"
    /\ tok.op = <<"pushw", "mem", "x">>
    /\ span_ops = <<MLoad>> \o Repeat(Pad, 4)

\* ---------------------------------------------------------------------------
\* The parsers of the hashing and Merkle instructions called on well-formed
\* and on malformed tokens (assembly/src/parsers/crypto_ops.rs).
\* ---------------------------------------------------------------------------

HashTokens == {<<"rphash">>, <<"rpperm">>, <<"rphash", "12">>, <<"rpperm", "12">>}

ParseRphash ==
    /\ CanParse(MaxInstr)
    /\ \E op \in HashTokens : Parsed("parse_rphash", op, parse_rphash(span_ops, op))

ParseRpperm ==
    /\ CanParse(MaxInstr)
    /\ \E op \in HashTokens : Parsed("parse_rpperm", op, parse_rpperm(span_ops, op))

NextCrypto == ParseMtree \/ ParseRphash \/ ParseRpperm

SpecCrypto == InitAsm /\ [][NextCrypto]_vars

\* C29: parse_rpperm, parse_rphash and parse_mtree reject malformed tokens:
\* an extra parameter gives extra_param, a wrong instruction name gives
\* unexpected_token naming the expected instruction, mtree with no variant or
\* with a variant other than get, set or cwm gives invalid_op; in every error
\* case no operation is appended to span_ops.
C29_malformed_tokens_are_rejected ==
    [][LET op == tok'.op
           fn == tok'.fn
           parts == IF fn = "parse_mtree" THEN 2 ELSE 1
           name == CASE fn = "parse_rphash" -> "rphash"
                     [] fn = "parse_rpperm" -> "rpperm"
                     [] OTHER -> "mtree"
       IN /\ Len(op) > parts => parse_result' = "extra_param"
          /\ (Len(op) = parts /\ op[1] # name) =>
               parse_result' = (CASE fn = "parse_rphash" -> "unexpected_token: expected rphash"
                                  [] fn = "parse_rpperm" -> "unexpected_token: expected rpperm"
                                  [] OTHER -> "unexpected_token: expected mtree.{get|set|cwm}")
          /\ (fn = "parse_mtree" /\ Len(op) < parts) => parse_result' = "invalid_op"
          /\ (fn = "parse_mtree" /\ Len(op) = parts /\ op[1] = name
                /\ op[2] \notin {"get", "set", "cwm"}) => parse_result' = "invalid_op"
          /\ (Len(op) = parts /\ op[1] = name
                /\ (fn = "parse_mtree" => op[2] \in {"get", "set", "cwm"})) =>
               parse_result' = "Ok" /\ Len(span_ops') > Len(span_ops)
          /\ parse_result' # "Ok" => span_ops' = span_ops]_vars

C29_witness ==
    /\ tok = [fn |-> "parse_rpperm", op |-> <<"rphash">>]
    /\ parse_result = "unexpected_token: expected rpperm"
    /\ ntok = 3 /\ Len(span_ops) > 1

\* ---------------------------------------------------------------------------
\* The Merkle primitives given well-formed and malformed positions: MpVerify
\* and MrUpdate executed on [d, i, V, R, ...] and [d, i, V_old, V_new, R, ...]
\* with the depth up to one more than the provider supports and the index up
\* to 2^d.
\* ---------------------------------------------------------------------------

InitMerkle ==
    /\ \E td \in 0..MaxDepth, seed \in 0..MaxSeed, d \in 0..(MaxDepth + 1),
          p \in {MpVerify, MrUpdate(FALSE), MrUpdate(TRUE)}, n \in {0, MaxRest} :
       \E i \in 0..Pow2(d) :
         LET leaves == TreeLeaves(seed, td)
             R      == MerkleRoot(leaves)
             V      == IF i < Pow2(td) THEN leaves[i + 1] ELSE FreshWord
             used   == IF p = MpVerify THEN 10 ELSE 14
             below  == Below(n, used)
             other  == TreeLeaves(MaxSeed + 1, 1)
         IN  /\ stack = <<d, i>> \o WordToStack(V)
                        \o (IF p = MpVerify THEN <<>> ELSE WordToStack(FreshWord))
                        \o WordToStack(R) \o below
             /\ tags = <<"d", "i">> \o [j \in 1..(used - 2 + Len(below)) |-> "x"]
             /\ advice_sets =
                  { [root |-> R, depth |-> td, leaves |-> leaves],
                    [root |-> MerkleRoot(other), depth |-> 1, leaves |-> other] }
             /\ ops = <<p>>
    /\ advice_tape = <<>> /\ inp = NoInput
    /\ pc = 1 /\ status = "running" /\ err = "" /\ prim = NoPrim
    /\ cont = <<>> /\ ran = <<>> /\ splits = <<>>
    /\ IdleAsm /\ IdleBlk /\ IdlePure

NextMerkle == ExecMpVerify \/ ExecMrUpdate \/ Halt

SpecMerkle == InitMerkle /\ [][NextMerkle]_vars

\* The primitive fails with the given error before anything is computed: the
\* stack and the provider's tree set are what they were.
Rejected(e) ==
    /\ status' = "failed" /\ err' = e
    /\ stack' = stack /\ advice_sets' = advice_sets /\ prim' = prim

MaxCompiles == 2

\* The module paths of the library, and a path it has no source for.
ModulePaths == {"a", "b", "c"}
UnknownPath == "x"
PathOrder == <<"a", "b", "c", "x">>

\* The use instructions of a source that imports the modules of S.
Uses(S) == SelectSeq(PathOrder, LAMBDA q : q \in S)

Source(uses, fault) == [uses |-> uses, fault |-> fault]

\* The procedures a module defines: one exported, one not.
Procedure(path, name, is_export) == [module |-> path, name |-> name, is_export |-> is_export]
LocalProcs(path) == {Procedure(path, "f", TRUE), Procedure(path, "g", FALSE)}

\* What can be wrong with a module after its imports: a procedure that does
\* not parse, or tokens left after the last procedure.
ModuleFaults == {"none", "invalid_procedure", "dangling_ops_after_module"}

\* StdLibrary: any import graph among the modules, self-imports and cycles
\* included; the last module may be faulty.
Libraries ==
    {[q \in ModulePaths |-> Source(Uses(g[q]), IF q = "c" THEN fault ELSE "none")] :
        g \in [ModulePaths -> SUBSET ModulePaths], fault \in ModuleFaults}

\* The programs given to compile.
Programs ==
    {Source(Uses(S), "none") : S \in {{"a"}, {"b", "c"}, {"c", "x"}}}
        \cup {Source(<<>>, "unexpected_eof")}

\* A call of compile (path "") or parse_module: its token stream, the
\* position of the next use instruction, and the procedures imported into
\* its context.
Activation(path, source) ==
    [path |-> path, uses |-> source.uses, fault |-> source.fault, pos |-> 1,
     imported |-> {}]

NoResult == [res |-> "none", error |-> "", dep_chain |-> <<>>]

\* Assembler::new
Assembler_new(stdlib) ==
    [stdlib |-> stdlib, parsed_modules |-> <<>>, calls |-> <<>>, dep_chain |-> <<>>,
     result |-> NoResult, compiles |-> 0, started |-> <<>>]

InitCompile ==
    /\ \E stdlib \in Libraries : assembler = Assembler_new(stdlib)
    /\ hsh = NoCall /\ air = NoCall /\ enc = NoCall
    /\ IdleVM /\ IdleAsm /\ IdleBlk

CompileFrame == UNCHANGED <<vmVars, asmVars, blkVars, hsh, air, enc>>

OnChain(path) == \E j \in 1..Len(assembler.dep_chain) : assembler.dep_chain[j] = path
IsParsed(path) == path \in DOMAIN assembler.parsed_modules

\* BTreeMap::insert
Insert(map, key, value) ==
    [k \in DOMAIN map \cup {key} |-> IF k = key THEN value ELSE map[k]]

\* The innermost call, and the path of the use instruction it has read.
Top == assembler.calls[Len(assembler.calls)]
InImports == assembler.calls # <<>> /\ Top.pos <= Len(Top.uses)
module_path == Top.uses[Top.pos]

\* An error returned with `?` from every call up to compile.
Err(error, chain) ==
    /\ assembler' = [assembler EXCEPT !.calls = <<>>, !.dep_chain = <<>>,
                       !.result = [res |-> "Err", error |-> error, dep_chain |-> chain]]
    /\ CompileFrame

\* The procedures of a module added to a context and the use token consumed.
Imported(call, module_procs) ==
    [call EXCEPT !.imported = @ \cup module_procs, !.pos = @ + 1]

\* compile: a token stream and a context are made and parse_imports is
\* called with an empty dependency chain.
Compile ==
    /\ assembler.calls = <<>> /\ assembler.compiles < MaxCompiles
    /\ \E source \in Programs :
         assembler' = [assembler EXCEPT !.calls = <<Activation("", source)>>,
                         !.dep_chain = <<>>, !.result = NoResult, !.compiles = @ + 1]
    /\ CompileFrame

\* A faulty variant: the chain is reported as it was before the use.
UseCircularUnpushed ==
    /\ InImports /\ OnChain(module_path)
    /\ Err("circular_module_dependency", assembler.dep_chain)

\* parse_imports, a use of a module that is being parsed up the chain.
UseCircular ==
    /\ InImports /\ OnChain(module_path)
    /\ Err("circular_module_dependency", Append(assembler.dep_chain, module_path))

\* parse_imports, a use of a module that is in parsed_modules: the path is
\* pushed on the chain, the procedures are taken from the map, the token is
\* consumed and the path is popped.
UseCached ==
    /\ InImports /\ ~OnChain(module_path) /\ IsParsed(module_path)
    /\ assembler' = [assembler EXCEPT
         !.calls[Len(assembler.calls)] =
             Imported(Top, assembler.parsed_modules[module_path])]
    /\ CompileFrame

\* parse_imports, a use of a module the library has no source for.
UseMissing ==
    /\ InImports /\ ~OnChain(module_path) /\ ~IsParsed(module_path)
    /\ module_path \notin DOMAIN assembler.stdlib
    /\ Err("missing_import_source", <<>>)

\* Faulty variants: a module is parsed whether or not it is in
\* parsed_modules; a module is parsed without being put on the chain.
UseParseAlways ==
    /\ InImports /\ ~OnChain(module_path)
    /\ module_path \in DOMAIN assembler.stdlib
    /\ assembler' = [assembler EXCEPT
         !.dep_chain = Append(@, module_path),
         !.calls = Append(@, Activation(module_path, assembler.stdlib[module_path])),
         !.started = Append(@, module_path)]
    /\ CompileFrame
UseParseUnchained ==
    /\ InImports /\ ~OnChain(module_path) /\ ~IsParsed(module_path)
    /\ module_path \in DOMAIN assembler.stdlib
    /\ assembler' = [assembler EXCEPT
         !.calls = Append(@, Activation(module_path, assembler.stdlib[module_path])),
         !.started = Append(@, module_path)]
    /\ CompileFrame

\* parse_imports, a use of a module that is not in parsed_modules: the path
\* is pushed on the chain and parse_module is called with the source.
UseParse ==
    /\ InImports /\ ~OnChain(module_path) /\ ~IsParsed(module_path)
    /\ module_path \in DOMAIN assembler.stdlib
    /\ assembler' = [assembler EXCEPT
         !.dep_chain = Append(@, module_path),
         !.calls = Append(@, Activation(module_path, assembler.stdlib[module_path])),
         !.started = Append(@, module_path)]
    /\ CompileFrame

\* The caller of parse_module goes on: it takes the procedures of the module
\* from parsed_modules, consumes the use token and pops the chain.
Returned(parsed_modules, path) ==
    LET n == Len(assembler.calls) IN
    [assembler EXCEPT
        !.parsed_modules = parsed_modules,
        !.calls = Append(SubSeq(assembler.calls, 1, n - 2),
                         Imported(assembler.calls[n - 1], parsed_modules[path])),
        !.dep_chain = SubSeq(@, 1, Len(@) - 1)]

\* A faulty variant: the module is inserted before its procedures are parsed,
\* with all of them.
ParseModuleInsertingFirst ==
    /\ Len(assembler.calls) > 1 /\ Top.pos > Len(Top.uses)
    /\ IF Top.fault # "none"
       THEN /\ assembler' = [assembler EXCEPT
                 !.parsed_modules = Insert(@, Top.path, LocalProcs(Top.path)),
                 !.calls = <<>>, !.dep_chain = <<>>,
                 !.result = [res |-> "Err", error |-> Top.fault, dep_chain |-> <<>>]]
            /\ CompileFrame
       ELSE /\ assembler' =
                 Returned(Insert(assembler.parsed_modules, Top.path, LocalProcs(Top.path)),
                          Top.path)
            /\ CompileFrame

\* parse_module after its imports: the procedures are parsed, nothing may
\* follow them, and the exported ones are inserted under the path.
ParseModule ==
    /\ Len(assembler.calls) > 1 /\ Top.pos > Len(Top.uses)
    /\ IF Top.fault # "none" THEN Err(Top.fault, <<>>)
       ELSE LET module_procs == {q \in LocalProcs(Top.path) : q.is_export}
            IN /\ assembler' =
                    Returned(Insert(assembler.parsed_modules, Top.path, module_procs),
                             Top.path)
               /\ CompileFrame

\* compile after its imports: the local procedures and the program body.
CompileBody ==
    /\ Len(assembler.calls) = 1 /\ Top.pos > Len(Top.uses)
    /\ IF Top.fault # "none" THEN Err(Top.fault, <<>>)
       ELSE /\ assembler' = [assembler EXCEPT !.calls = <<>>, !.dep_chain = <<>>,
                   !.result = [res |-> "Ok", error |-> "", dep_chain |-> <<>>]]
            /\ CompileFrame

\* A step of the compile call in progress.
Resolve ==
    UseCircular \/ UseCached \/ UseMissing \/ UseParse \/ ParseModule \/ CompileBody

NextCompile ==
    \/ Compile
    \/ UseCircular \/ UseCached \/ UseMissing \/ UseParse \/ ParseModule \/ CompileBody

SpecCompile == InitCompile /\ [][NextCompile]_vars

\* A compile call that was started is run to its end.
SpecCompileLive == InitCompile /\ [][NextCompile]_vars /\ WF_vars(Resolve)

\* The modules a module of the library uses, and the modules reached from a
\* set of modules in at most n steps.
Imports(lib, path) == {lib[path].uses[j] : j \in 1..Len(lib[path].uses)} \cap DOMAIN lib
RECURSIVE ReachedFrom(_, _, _)
ReachedFrom(lib, S, n) ==
    IF n = 0 THEN S
    ELSE ReachedFrom(lib, S \cup UNION {Imports(lib, q) : q \in S}, n - 1)
OnCycle(lib, path) ==
    path \in DOMAIN lib
      /\ path \in ReachedFrom(lib, Imports(lib, path), Cardinality(DOMAIN lib))

Circular == assembler.result.error = "circular_module_dependency"

\* C31: a use of a module path that is on the current dependency chain (a
\* module importing itself included) makes compile fail with
\* circular_module_dependency, the reported chain being the current chain
\* followed by the repeated path; the error is reported for no other use,
\* and only for a path that lies on a cycle of the import graph, so never
\* for a module that is merely imported along two branches.
C31_circular_dependency_is_reported ==
    /\ [][(InImports /\ OnChain(module_path)) =>
            /\ assembler'.calls = <<>>
            /\ assembler'.result.res = "Err"
            /\ assembler'.result.error = "circular_module_dependency"
            /\ assembler'.result.dep_chain = assembler.dep_chain \o <<module_path>>]_vars
    /\ [][(assembler'.result.error = "circular_module_dependency" /\ ~Circular) =>
            InImports /\ OnChain(module_path)]_vars
    /\ [](Circular =>
            LET chain == assembler.result.dep_chain
            IN /\ \E j \in 1..(Len(chain) - 1) : chain[j] = chain[Len(chain)]
               /\ OnCycle(assembler.stdlib, chain[Len(chain)]))

C31_witness ==
    /\ Circular /\ assembler.result.dep_chain = <<"a", "b", "a">>
    /\ assembler.calls = <<>> /\ assembler.result.res = "Err"

\* parse_module is being called, and the path it is called with.
ParseModuleCalled ==
    assembler.calls # <<>> /\ Len(assembler'.calls) = Len(assembler.calls) + 1
CalledPath == assembler'.calls[Len(assembler'.calls)].path

\* The cache is filled lazily and its entries stay: parse_module is called
\* only at a use of a path absent from parsed_modules, a use of a path in
\* parsed_modules takes the procedures from the map without a call, and no
\* entry is overwritten or removed.
LazyCache ==
    /\ ParseModuleCalled =>
         InImports /\ CalledPath = module_path /\ ~IsParsed(module_path)
    /\ (InImports /\ ~OnChain(module_path) /\ IsParsed(module_path)) =>
         /\ ~ParseModuleCalled
         /\ assembler'.parsed_modules = assembler.parsed_modules
         /\ assembler'.calls[Len(assembler.calls)].imported =
              Top.imported \cup assembler.parsed_modules[module_path]
         /\ assembler'.calls[Len(assembler.calls)].pos = Top.pos + 1
    /\ \A q \in DOMAIN assembler.parsed_modules :
         /\ q \in DOMAIN assembler'.parsed_modules
         /\ assembler'.parsed_modules[q] = assembler.parsed_modules[q]

\* C32 as stated: the cache is filled lazily, its entries stay, and
\* parse_module is called at most once for a path on one Assembler.
C32_as_stated ==
    [][LazyCache
         /\ (ParseModuleCalled =>
               \A j \in 1..Len(assembler.started) : assembler.started[j] # CalledPath)]_vars

\* C32 (amended): the cache is filled lazily, its entries stay, and a path is
\* inserted at most once: once a module is in parsed_modules it is not parsed
\* again; a module whose parsing ended in an error is not in parsed_modules
\* and is parsed again when a later compile uses it.
C32_module_inserted_at_most_once ==
    [][/\ LazyCache
       /\ DOMAIN assembler'.parsed_modules # DOMAIN assembler.parsed_modules =>
            /\ Len(assembler.calls) > 1 /\ ~IsParsed(Top.path)
            /\ DOMAIN assembler'.parsed_modules =
                 DOMAIN assembler.parsed_modules \cup {Top.path}
       /\ (ParseModuleCalled
             /\ \E j \in 1..Len(assembler.started) : assembler.started[j] = CalledPath) =>
            /\ ~IsParsed(CalledPath)
            /\ assembler.compiles > 1]_vars

C32_witness ==
    /\ assembler.started = <<"b", "c", "c">> /\ assembler.compiles = 2
    /\ IsParsed("b") /\ ~IsParsed("c")
    /\ assembler.calls = <<>> /\ assembler.result.error = "dangling_ops_after_module"

\* The paths of the modules whose parse_module call is in progress.
InProgress == {assembler.calls[j].path : j \in 2..Len(assembler.calls)}

\* C38: parsed_modules holds only modules whose parsing completed: every
\* path in it has a source in which all procedures parse and nothing follows
\* them, all modules it uses are in parsed_modules too, exactly its exported
\* procedures are stored, and it is not a module being parsed; a path is
\* inserted by parse_module only, after the imports of the module are
\* resolved.
C38_only_parsed_modules_are_cached ==
    /\ [](\A q \in DOMAIN assembler.parsed_modules :
            /\ q \in DOMAIN assembler.stdlib
            /\ assembler.stdlib[q].fault = "none"
            /\ Imports(assembler.stdlib, q) \subseteq DOMAIN assembler.parsed_modules
            /\ assembler.parsed_modules[q] = {f \in LocalProcs(q) : f.is_export}
            /\ q \notin InProgress
            /\ \E j \in 1..Len(assembler.started) : assembler.started[j] = q)
    /\ [][DOMAIN assembler'.parsed_modules # DOMAIN assembler.parsed_modules =>
            /\ Len(assembler.calls) > 1 /\ Top.pos > Len(Top.uses)
            /\ Top.fault = "none"
            /\ assembler'.result.res # "Err"]_vars

C38_witness ==
    /\ assembler.calls = <<>> /\ assembler.result.res = "Err"
    /\ assembler.result.error = "invalid_procedure"
    /\ DOMAIN assembler.parsed_modules = {"a", "b"}
    /\ assembler.started = <<"b", "a", "c">>

\* C39: import resolution terminates: every nested parse_module call runs
\* with a dependency chain of distinct paths that is one longer than its
\* caller's, a use of a path on the chain ends the compile call with an
\* error, and every compile call that was started returns.
C39_import_resolution_terminates ==
    /\ [][ParseModuleCalled =>
            /\ Len(assembler'.dep_chain) = Len(assembler.dep_chain) + 1
            /\ Len(assembler'.dep_chain) = Len(assembler'.calls) - 1
            /\ \A i, j \in 1..Len(assembler'.dep_chain) :
                 assembler'.dep_chain[i] = assembler'.dep_chain[j] => i = j]_vars
    /\ [][(InImports /\ OnChain(module_path)) =>
            assembler'.calls = <<>> /\ assembler'.result.res = "Err"]_vars
    /\ (assembler.calls # <<>>) ~>
         (assembler.calls = <<>> /\ assembler.result.res \in {"Ok", "Err"})

C39_witness ==
    /\ assembler.calls = <<>> /\ Circular
    /\ assembler.result.dep_chain = <<"a", "b", "c", "a">>

====
